---- MODULE Spec2Model ----
(***************************************************************************)
(* Model of the TikTok crawler (src/crawler/tiktok_crawler.py) and of the  *)
(* repositories it writes through (src/database/repositories.py).          *)
(*                                                                         *)
(* Texts (URLs, count texts, user names) are sequences of one-character    *)
(* strings, so that the splitting and stripping code is modelled by what   *)
(* it does.  Python's None is NULL for texts and NullInt for integers; the *)
(* SQL NULL of a timestamp column is NullTime.                             *)
(*                                                                         *)
(* The source files come from different revisions that name the same       *)
(* entity "favorite account" and "favorite user", and the same field       *)
(* account_username / user_username; the model treats these as one name.   *)
(***************************************************************************)
EXTENDS Integers, Sequences, FiniteSets, TLC

VARIABLES
    crawler_accounts,      \* table crawler_accounts: id -> row
    favorite_accounts,     \* table favorite_accounts: id -> row
    video_light,           \* table video_light_raw_data: set of rows, unique video_id
    video_heavy,           \* table video_heavy_raw_data: set of rows, unique video_id
    clock,                 \* datetime.now()
    mode,                  \* args.mode
    max_videos_per_account,\* args.max_videos_per_account
    max_accounts,          \* args.max_accounts
    pc,                    \* position of main() / the batch loops
    crawler_account,       \* self.crawler_account (id, 0 = None)
    driver,                \* browser session: "none", "open", "quit"
    page,                  \* page the browser shows
    favorite_account_list, \* favorite_accounts fetched for the running batch
    idx,                   \* index of the batch loop over favorite_account_list
    existing_video_ids,    \* heavy: ids fetched before the target's scan
    light_like_datas,      \* like pass of the current target
    light_play_datas,      \* play pass of the current target
    vidx,                  \* heavy: index of the per-video loop
    play_count_not_found,  \* miss counter of the last correlator call
    emitted,               \* records handed to save_video_light_data by the last correlator call
    attempted,             \* history: targets whose crawl was started in the running batch
    visited,               \* history: video ids whose detail page navigation was started for the current target
    not_found,             \* history: targets whose page showed "account not found"
    interrupted,           \* history: an operator interrupt was raised
    failed,                \* history: targets whose crawl ended in a failure in the running batch
    written,               \* history: targets for which a video record was saved in the running batch
    not_found_trace,       \* history: play_count_not_found after each like-pass element of the last correlator call
    faults,                \* failures and interrupts the environment may still cause
    returned,              \* return value of the last parse_and_save_* call: "none", "True", "False"
    raised,                \* exception propagating out of the run: "none", "Exception", "KeyboardInterrupt"
    args_crawler_account_id,    \* args.crawler_account_id (0 = None)
    session,               \* history: "none", "established" (start() returned), "failed" (start() raised)
    last_crawled_writes,   \* history: calls of update_crawler_account_last_crawled that were carried out
    quit_calls,            \* history: calls of driver.quit()
    last_saved,            \* history: per table and video id, the record of the last direct save_video_*_data call
    number_text,           \* the text handed to the last call of parse_tiktok_number on its own
    number_result,         \* what that call returned
    number_raised,         \* the exception that left that call, "none" when it returned
    time_input,            \* time_text of the last call of parse_tiktok_time on its own
    time_base,             \* base_time of that call
    time_result,           \* what that call returned
    time_raised,           \* the exception that left that call, "none" when it returned
    url_input,             \* url of the last call of parse_tiktok_video_url on its own
    url_result,            \* what that call returned
    url_raised,            \* the exception that left that call, "none" when it returned
    essence_input,         \* thumbnail_url of the last call of extract_thumbnail_essence on its own
    essence_result,        \* what that call returned
    essence_raised,        \* the exception that left that call, "none" when it returned
    runs,                  \* for each of two runs on one database: where it is, the account it took
    transaction,           \* the statements the connection has executed and not yet committed
    query,                 \* the statement of the last call of Database.execute_query
    query_raised,          \* the exception that left that call, "none" when it returned
    unreachable,           \* under repeated runs: the favorite accounts whose user page never loads
    record_error           \* history: the per-record errors of the last extraction or save function of the current target

vars == <<crawler_accounts, favorite_accounts, video_light, video_heavy, clock,
          mode, max_videos_per_account, max_accounts, pc, crawler_account,
          driver, page, favorite_account_list, idx, existing_video_ids,
          light_like_datas, light_play_datas, vidx, play_count_not_found,
          emitted, attempted, visited, not_found, interrupted, failed, written,
          not_found_trace, faults, returned, raised, args_crawler_account_id, session,
          last_crawled_writes, quit_calls, last_saved, number_text, number_result,
          number_raised, time_input, time_base, time_result, time_raised, url_input,
          url_result, url_raised, essence_input, essence_result, essence_raised,
          record_error, runs, transaction, query, query_raised,
          unreachable>>

\* ------------------------------------------------------------------------
\* Values
\* ------------------------------------------------------------------------
NULL == <<"None">>
NullInt == 0 - 1
NullTime == 0

Min(a, b) == IF a <= b THEN a ELSE b

\* ------------------------------------------------------------------------
\* Text helpers (str.split, "in", slicing) on character sequences
\* ------------------------------------------------------------------------
Contains(s, c) == \E i \in 1..Len(s) : s[i] = c

\* index of the first occurrence of c in s (0 when absent)
IndexOf(s, c) ==
    IF Contains(s, c) THEN CHOOSE i \in 1..Len(s) : s[i] = c /\ \A j \in 1..(i - 1) : s[j] # c
    ELSE 0

\* index of the last occurrence of c in s (0 when absent)
LastIndexOf(s, c) ==
    IF Contains(s, c) THEN CHOOSE i \in 1..Len(s) : s[i] = c /\ \A j \in (i + 1)..Len(s) : s[j] # c
    ELSE 0

\* s.split(c)[0]
SplitFirst(s, c) == IF Contains(s, c) THEN SubSeq(s, 1, IndexOf(s, c) - 1) ELSE s

\* s.split(c)[-1]
SplitLast(s, c) == SubSeq(s, LastIndexOf(s, c) + 1, Len(s))

\* variant: the "~" suffix of the file name is kept
extract_thumbnail_essence_keep_suffix(thumbnail_url) ==
    IF thumbnail_url = NULL THEN thumbnail_url
    ELSE LET path == IF Contains(thumbnail_url, "?") THEN SplitFirst(thumbnail_url, "?") ELSE thumbnail_url
             file_name0 == SplitLast(path, "/")
         IN  IF Contains(file_name0, ".") THEN SplitFirst(file_name0, ".") ELSE file_name0

\* extract_thumbnail_essence: fingerprint of a thumbnail URL
extract_thumbnail_essence(thumbnail_url) ==
    IF thumbnail_url = NULL THEN thumbnail_url
    ELSE LET path == IF Contains(thumbnail_url, "?") THEN SplitFirst(thumbnail_url, "?") ELSE thumbnail_url
             file_name0 == SplitLast(path, "/")
             file_name1 == IF Contains(file_name0, ".") THEN SplitFirst(file_name0, ".") ELSE file_name0
             file_name2 == IF Contains(file_name1, "~") THEN SplitFirst(file_name1, "~") ELSE file_name1
         IN  file_name2


\* the exception that the try block of extract_thumbnail_essence raises:
\* "in" on None is a TypeError, on a text split and indexing raise none
RaisedInEssenceTry(thumbnail_url) == IF thumbnail_url = NULL THEN "TypeError" ELSE "none"

\* variant: no except clause
ExceptNothing(exc) == exc

\* "except Exception: ... return thumbnail_url": no Exception leaves the function
ExceptException(exc) == IF exc \in {"KeyboardInterrupt", "SystemExit"} THEN exc ELSE "none"

\* ------------------------------------------------------------------------
\* parse_tiktok_number
\* ------------------------------------------------------------------------
Digits == {"0", "1", "2", "3", "4", "5", "6", "7", "8", "9"}

DigitVal(c) == CHOOSE n \in 0..9 : <<"0", "1", "2", "3", "4", "5", "6", "7", "8", "9">>[n + 1] = c

\* str.replace(c, "")
RemoveChar(s, c) == SelectSeq(s, LAMBDA x : x # c)

\* str.isdigit()
IsDigitStr(s) == Len(s) > 0 /\ \A i \in 1..Len(s) : s[i] \in Digits

RECURSIVE StrToNat(_)
StrToNat(s) == IF s = <<>> THEN 0 ELSE 10 * StrToNat(SubSeq(s, 1, Len(s) - 1)) + DigitVal(s[Len(s)])

RECURSIVE Pow10(_)
Pow10(n) == IF n = 0 THEN 1 ELSE 10 * Pow10(n - 1)

\* float(s) succeeds: digits with at most one "." and at least one digit
FloatOk(s) ==
    /\ \A i \in 1..Len(s) : s[i] \in Digits \cup {"."}
    /\ Len(SelectSeq(s, LAMBDA x : x = ".")) <= 1
    /\ \E i \in 1..Len(s) : s[i] \in Digits

IntDigits(s) == SplitFirst(s, ".")
FracDigits(s) == IF Contains(s, ".") THEN SubSeq(s, IndexOf(s, ".") + 1, Len(s)) ELSE <<>>

\* the decimal s times mult, in exact arithmetic: the integer part and the
\* numerator of the rest over Pow10(Len(FracDigits(s)))
ExactProduct(s, mult) ==
    LET I == StrToNat(IntDigits(s))
        F == StrToNat(FracDigits(s))
        D == Pow10(Len(FracDigits(s)))
    IN  IF mult % D = 0
        THEN [whole |-> I * mult + F * (mult \div D), rest |-> 0, over |-> D]
        ELSE [whole |-> I * mult + ((F * mult) \div D), rest |-> (F * mult) % D, over |-> D]

\* digits without the zeros at their end
RECURSIVE StripZeros(_)
StripZeros(s) == IF s # <<>> /\ s[Len(s)] = "0" THEN StripZeros(SubSeq(s, 1, Len(s) - 1)) ELSE s

\* float(s) * mult in IEEE 754 double arithmetic: the decimals <<integer part,
\* number of fraction digits, fraction digits as a number>> whose product with
\* mult is an integer in exact arithmetic and falls just below it as a double
\* (2.01 * 1000 = 2009.9999999999998).  The table holds every such decimal with
\* integer part up to 3 and up to 3 fraction digits out of 0, 1, 2, 5, 7, 8;
\* other products of decimals this short truncate as in exact arithmetic
FloatProductFallsShort ==
    {<<1, 3, f, m>> : f \in {1, 5, 7, 11, 15, 17}, m \in {1000, 1000000, 1000000000}}
    \cup {<<1, 3, f, 1000000000>> : f \in {51, 55, 57}}
    \cup {<<2, 2, 1, 1000>>, <<2, 2, 1, 1000000>>, <<2, 2, 5, 1000000>>, <<2, 2, 7, 1000000>>}
    \cup {<<2, 3, 18, 1000>>, <<2, 3, 18, 1000000>>, <<2, 3, 58, 1000000>>, <<2, 3, 78, 1000000>>}

\* int(float(s) * mult)
IntOfFloatTimes(s, mult) ==
    LET f == StripZeros(FracDigits(s))
        short == <<StrToNat(IntDigits(s)), Len(f), StrToNat(f), mult>> \in FloatProductFallsShort
    IN  IF short THEN ExactProduct(s, mult).whole - 1 ELSE ExactProduct(s, mult).whole

\* variant: the unit is compared as it is written
UpperAsWritten(c) == c

\* str.upper() of the unit character
Upper(c) == IF c = "k" THEN "K" ELSE IF c = "m" THEN "M" ELSE IF c = "g" THEN "G" ELSE IF c = "b" THEN "B" ELSE c

multipliers == [u \in {"K", "M", "G", "B"} |->
                  IF u = "K" THEN 1000 ELSE IF u = "M" THEN 1000000 ELSE 1000000000]

\* variant: a missing text parses to 0 instead of None
parse_tiktok_number_zero(text) ==
    IF text = NULL \/ text = <<>> THEN 0
    ELSE LET t == RemoveChar(text, ",")
         IN  IF IsDigitStr(RemoveChar(t, "."))
             THEN IF FloatOk(t) THEN IntOfFloatTimes(t, 1) ELSE NullInt
             ELSE IF t = <<>> THEN NullInt
             ELSE LET unit == Upper(t[Len(t)])
                      number == SubSeq(t, 1, Len(t) - 1)
                  IN  IF unit \in DOMAIN multipliers /\ FloatOk(number)
                      THEN IntOfFloatTimes(number, multipliers[unit])
                      ELSE NullInt

parse_tiktok_number(text) ==
    IF text = NULL \/ text = <<>> THEN NullInt
    ELSE LET t == RemoveChar(text, ",")
         IN  IF IsDigitStr(RemoveChar(t, "."))
             THEN IF FloatOk(t) THEN IntOfFloatTimes(t, 1) ELSE NullInt
             ELSE IF t = <<>> THEN NullInt
             ELSE LET unit == Upper(t[Len(t)])
                      number == SubSeq(t, 1, Len(t) - 1)
                  IN  IF unit \in DOMAIN multipliers /\ FloatOk(number)
                      THEN IntOfFloatTimes(number, multipliers[unit])
                      ELSE NullInt

\* the exception that the try block of parse_tiktok_number raises on text:
\* float() on a text that is no number, text[-1] on the empty text
RaisedInTry(text) ==
    IF text = NULL \/ text = <<>> THEN "none"
    ELSE LET t == RemoveChar(text, ",")
         IN  IF IsDigitStr(RemoveChar(t, "."))
             THEN IF FloatOk(t) THEN "none" ELSE "ValueError"
             ELSE IF t = <<>> THEN "IndexError"
             ELSE IF Upper(t[Len(t)]) \in DOMAIN multipliers /\ ~FloatOk(SubSeq(t, 1, Len(t) - 1))
                  THEN "ValueError"
                  ELSE "none"

\* variant: "except ValueError:"
ExceptValueError(exc) == IF exc = "ValueError" THEN "none" ELSE exc

\* "except: return None": nothing leaves the function
BareExcept(exc) == "none"

\* ------------------------------------------------------------------------
\* parse_tiktok_video_url
\* ------------------------------------------------------------------------
\* the segments of s.split(c)
RECURSIVE Split(_, _)
Split(s, c) ==
    IF Contains(s, c)
    THEN <<SubSeq(s, 1, IndexOf(s, c) - 1)>> \o Split(SubSeq(s, IndexOf(s, c) + 1, Len(s)), c)
    ELSE <<s>>

\* variant: the owner is the segment three positions from the end
parse_tiktok_video_url_third_from_end(url) ==
    IF url = NULL \/ url = <<>> THEN [video_id |-> NULL, account_username |-> NULL]
    ELSE LET u == IF Contains(url, "?") THEN SplitFirst(url, "?") ELSE url
             parts == Split(u, "/")
         IN  [video_id |-> parts[Len(parts)],
              account_username |->
                  IF Len(parts) >= 3 /\ Len(parts[Len(parts) - 2]) > 0
                  THEN Tail(parts[Len(parts) - 2]) ELSE NULL]

\* [video_id, account_username] of a video URL
parse_tiktok_video_url(url) ==
    IF url = NULL \/ url = <<>> THEN [video_id |-> NULL, account_username |-> NULL]
    ELSE LET u == IF Contains(url, "?") THEN SplitFirst(url, "?") ELSE url
             parts == Split(u, "/")
             ats == {i \in 1..Len(parts) : Len(parts[i]) > 0 /\ parts[i][1] = "@"}
             first == CHOOSE i \in ats : \A j \in ats : i <= j
         IN  [video_id |-> parts[Len(parts)],
              account_username |-> IF ats = {} THEN NULL ELSE Tail(parts[first])]

\* the exception that the try block of parse_tiktok_video_url raises on a text:
\* "in", split, parts[-1] of a list that is never empty and startswith raise none
RaisedInUrlTry(url) == "none"

\* ------------------------------------------------------------------------
\* parse_tiktok_time
\* ------------------------------------------------------------------------
\* the names bound in the module: its imports (lines 1-17) and its own definitions
ModuleNames ==
    {"webdriver", "Service", "Options", "By", "WebDriverWait", "EC", "TimeoutException",
     "NoSuchElementException", "datetime", "random", "time", "Optional", "List", "Dict", "Tuple",
     "CrawlerAccount", "FavoriteAccount", "VideoHeavyRawData", "VideoLightRawData",
     "CrawlerAccountRepository", "FavoriteAccountRepository", "VideoRepository", "Database",
     "SeleniumManager", "setup_logger", "logger", "extract_thumbnail_essence", "parse_tiktok_time",
     "parse_tiktok_video_url", "parse_tiktok_number", "TikTokCrawler", "main"}

\* a datetime, and the record that stands for None
Datetime(y, mo, d, h, mi, sec) ==
    [year |-> y, month |-> mo, day |-> d, hour |-> h, minute |-> mi, second |-> sec]
NoneDatetime == Datetime(0, 0, 0, 0, 0, 0)

\* the characters of the relative forms: "byou" (second), "fun" (minute),
\* "ji" (hour), "kan" (span), "nichi" (day), "mae" (ago); "N fun mae" is "N minutes ago"
Byou == "S"
Fun == "F"
Ji == "J"
Kan == "N"
Nichi == "D"
Mae == "Z"

\* str.endswith(suffix)
EndsWith(s, suffix) ==
    Len(s) >= Len(suffix) /\ SubSeq(s, Len(s) - Len(suffix) + 1, Len(s)) = suffix

\* str.replace(old, ""): every occurrence, left to right, is removed
RECURSIVE RemoveAll(_, _)
RemoveAll(s, old) ==
    IF Len(s) < Len(old) \/ s = <<>> THEN s
    ELSE IF SubSeq(s, 1, Len(old)) = old THEN RemoveAll(SubSeq(s, Len(old) + 1, Len(s)), old)
    ELSE <<s[1]>> \o RemoveAll(Tail(s), old)

\* int(s) succeeds: digits, after a sign or not
IntOk(s) == IsDigitStr(s) \/ (Len(s) > 1 /\ s[1] \in {"-", "+"} /\ IsDigitStr(Tail(s)))

\* int(s)
IntOf(s) ==
    IF s[1] = "-" THEN 0 - StrToNat(Tail(s))
    ELSE IF s[1] = "+" THEN StrToNat(Tail(s)) ELSE StrToNat(s)

IsLeap(y) == (y % 4 = 0 /\ y % 100 # 0) \/ y % 400 = 0

DaysInMonth(y, mo) ==
    IF mo = 2 THEN (IF IsLeap(y) THEN 29 ELSE 28)
    ELSE IF mo \in {4, 6, 9, 11} THEN 30 ELSE 31

\* datetime(year, month, day, ...) accepts the date
DateOk(y, mo, d) ==
    /\ y \in 1..9999
    /\ mo \in 1..12
    /\ d \in 1..DaysInMonth(y, mo)

\* t - timedelta(days=1), (hours=1), (minutes=1), (seconds=1)
PrevDay(t) ==
    IF t.day > 1 THEN [t EXCEPT !.day = t.day - 1]
    ELSE IF t.month > 1
         THEN [t EXCEPT !.month = t.month - 1, !.day = DaysInMonth(t.year, t.month - 1)]
         ELSE [t EXCEPT !.year = t.year - 1, !.month = 12, !.day = 31]
PrevHour(t) ==
    IF t.hour > 0 THEN [t EXCEPT !.hour = t.hour - 1] ELSE [PrevDay(t) EXCEPT !.hour = 23]
PrevMinute(t) ==
    IF t.minute > 0 THEN [t EXCEPT !.minute = t.minute - 1] ELSE [PrevHour(t) EXCEPT !.minute = 59]
PrevSecond(t) ==
    IF t.second > 0 THEN [t EXCEPT !.second = t.second - 1] ELSE [PrevMinute(t) EXCEPT !.second = 59]

\* t - timedelta(unit = n) for n >= 0
RECURSIVE Before(_, _, _)
Before(t, n, unit) ==
    IF n = 0 THEN t
    ELSE Before(IF unit = "seconds" THEN PrevSecond(t)
                ELSE IF unit = "minutes" THEN PrevMinute(t)
                ELSE IF unit = "hours" THEN PrevHour(t)
                ELSE PrevDay(t), n - 1, unit)

\* "base_time - timedelta(unit=n)": the name timedelta is looked up when the line runs
MinusTimedelta(base_time, n, unit) ==
    IF "timedelta" \in ModuleNames
    THEN [value |-> Before(base_time, n, unit), exc |-> "none"]
    ELSE [value |-> NoneDatetime, exc |-> "NameError"]

\* "unit = int(time_text.replace(suffix, "")); return base_time - timedelta(unit=unit)"
RelativeBranch(time_text, base_time, suffix, unit) ==
    LET digits == RemoveAll(time_text, suffix)
    IN  IF IntOk(digits) /\ IntOf(digits) >= 0 THEN MinusTimedelta(base_time, IntOf(digits), unit)
        ELSE IF IntOk(digits) THEN [value |-> NoneDatetime, exc |-> "NameError"]
        ELSE [value |-> NoneDatetime, exc |-> "ValueError"]

\* variant: the year of base_time whatever the month
MonthDayYearOfBase(month, base_time) == base_time.year

\* "year = base_time.year; if month > base_time.month: year -= 1"
MonthDayYear(month, base_time) ==
    IF month > base_time.month THEN base_time.year - 1 ELSE base_time.year

\* "datetime(year, month, day, base_time.hour, base_time.minute, ...)" of parts given to int()
DateBranch(parts, y, mo, d, base_time) ==
    IF (\A i \in 1..Len(parts) : IntOk(parts[i])) /\ DateOk(y, mo, d)
    THEN [value |-> Datetime(y, mo, d, base_time.hour, base_time.minute, 0), exc |-> "none"]
    ELSE [value |-> NoneDatetime, exc |-> "ValueError"]

\* the try block of parse_tiktok_time: the value it returns or the exception it raises
parse_tiktok_time_try(time_text, base_time) ==
    IF EndsWith(time_text, <<Fun, Mae>>)
    THEN RelativeBranch(time_text, base_time, <<Fun, Mae>>, "minutes")
    ELSE IF EndsWith(time_text, <<Ji, Kan, Mae>>)
    THEN RelativeBranch(time_text, base_time, <<Ji, Kan, Mae>>, "hours")
    ELSE IF EndsWith(time_text, <<Nichi, Mae>>)
    THEN RelativeBranch(time_text, base_time, <<Nichi, Mae>>, "days")
    ELSE LET parts == Split(time_text, "-")
             part(i) == IF i <= Len(parts) /\ IntOk(parts[i]) THEN IntOf(parts[i]) ELSE 0
         IN  IF Len(parts) = 2
             THEN DateBranch(parts, MonthDayYear(part(1), base_time), part(1), part(2), base_time)
             ELSE IF Len(parts) = 3
             THEN DateBranch(parts, part(1), part(2), part(3), base_time)
             ELSE [value |-> NoneDatetime, exc |-> "none"]

\* parse_tiktok_time: "if not time_text: return None", the try block, "except: return None"
parse_tiktok_time(time_text, base_time) ==
    IF time_text = NULL \/ time_text = <<>> THEN NoneDatetime
    ELSE LET r == parse_tiktok_time_try(time_text, base_time)
         IN  IF r.exc = "none" THEN r.value ELSE NoneDatetime

\* the exception that the try block of parse_tiktok_time raises, "none" when it returns
RaisedInTimeTry(time_text, base_time) ==
    IF time_text = NULL \/ time_text = <<>> THEN "none"
    ELSE parse_tiktok_time_try(time_text, base_time).exc

\* no call of the pure functions on their own is under way
IdleTime == time_input = NULL /\ time_base = NoneDatetime
IdleUrl == url_input = NULL
IdleEssence == essence_input = NULL

\* no second run is under way
IdleRuns == runs = <<>>

\* no statement was handed to the connection
IdleQuery == transaction = <<>> /\ query = [kind |-> "none"] /\ query_raised = "none"

queryVars == <<transaction, query, query_raised>>

\* the variables of the specifications that stand beside the main run
sideVars == <<queryVars, unreachable>>

\* every user page may load
IdleRepeat == unreachable = {}

IdleSide == IdleQuery /\ IdleRepeat

\* ------------------------------------------------------------------------
\* Persistence boundary (VideoRepository)
\* ------------------------------------------------------------------------
\* the UNIQUE key of video_light_raw_data and video_heavy_raw_data
UniqueKey(data) == data.video_id

\* INSERT ... ON DUPLICATE KEY UPDATE on video_light_raw_data
save_video_light_data(rows, data) == {r \in rows : UniqueKey(r) # UniqueKey(data)} \cup {data}

\* variant: a plain INSERT
save_video_heavy_data_insert(rows, data) == rows \cup {data}

\* INSERT ... ON DUPLICATE KEY UPDATE on video_heavy_raw_data
save_video_heavy_data(rows, data) == {r \in rows : UniqueKey(r) # UniqueKey(data)} \cup {data}

\* SELECT video_id FROM video_heavy_raw_data WHERE user_username = %s
get_existing_heavy_data_video_ids(rows, user_username) ==
    {r.video_id : r \in {x \in rows : x.account_username = user_username}}

\* ------------------------------------------------------------------------
\* Record correlator (parse_and_save_video_light_datas)
\* ------------------------------------------------------------------------
\* variant: the first value stored under a key is kept
PlayCountMapPutFirst(m, k, v) == [x \in (DOMAIN m) \cup {k} |-> IF x \in DOMAIN m THEN m[x] ELSE v]

\* play_count_map[k] = v
PlayCountMapPut(m, k, v) == [x \in (DOMAIN m) \cup {k} |-> IF x = k THEN v ELSE m[x]]

\* the loop over light_play_datas, elements i..Len(P)
RECURSIVE BuildPlayCountMap(_, _, _)
BuildPlayCountMap(P, i, m) ==
    IF i > Len(P) THEN m
    ELSE CHOOSE r \in {BuildPlayCountMap(P, i + 1, m2) :
                          m2 \in {PlayCountMapPut(m, extract_thumbnail_essence(P[i].video_thumbnail_url),
                                                   P[i].play_count_text)}} : TRUE

\* variant: play_count_map.get(k, "0")
PlayCountMapGetDefault(m, k) == IF k \in DOMAIN m THEN m[k] ELSE <<"0">>

\* play_count_map.get(k)
PlayCountMapGet(m, k) == IF k \in DOMAIN m THEN m[k] ELSE NULL

\* "not play_count_text"
NotText(t) == t = NULL \/ t = <<>>

\* the play count text attached to one like-pass element
PlayCountTextFor(like_data, m) ==
    PlayCountMapGet(m, extract_thumbnail_essence(like_data.video_thumbnail_url))

\* VideoLightRawData(...) built for one like-pass element
VideoLightRawData(like_data, m, now) ==
    [video_url |-> like_data.video_url,
     video_id |-> like_data.video_id,
     account_username |-> like_data.account_username,
     video_thumbnail_url |-> like_data.video_thumbnail_url,
     video_alt_info_text |-> like_data.video_alt_info_text,
     play_count_text |-> PlayCountTextFor(like_data, m),
     play_count |-> parse_tiktok_number(PlayCountTextFor(like_data, m)),
     like_count_text |-> like_data.like_count_text,
     like_count |-> parse_tiktok_number(like_data.like_count_text),
     crawling_algorithm |-> like_data.crawling_algorithm,
     crawled_at |-> now]

\* play_count_not_found after each of the first n records of the loop:
\* the counter counts the records whose play count text is None or empty
NotFoundTrace(recs, n) ==
    [i \in 1..n |-> Cardinality({j \in 1..i : NotText(recs[j].play_count_text)})]

\* the table after save_video_light_data of the first n records, in order:
\* a later record replaces an earlier row of the same video_id
SaveLightUpTo(rows, recs, n) ==
    {r \in rows : \A i \in 1..n : recs[i].video_id # r.video_id}
    \cup {recs[i] : i \in {k \in 1..n : \A j \in (k + 1)..n : recs[j].video_id # recs[k].video_id}}

\* ------------------------------------------------------------------------
\* Bounds and the pages the site serves
\* ------------------------------------------------------------------------
NumCrawlers == 2
NumTargets == 3
PageVideos == 2
MaxFaults == 1

DefaultHeavyMaxVideos == 10

Letters == <<"a", "b", "c", "d", "e", "f", "g", "h">>

DigitChar(d) == <<"0", "1", "2", "3", "4", "5", "6", "7", "8", "9">>[d + 1]

RECURSIVE NatToStr(_)
NatToStr(n) == IF n < 10 THEN <<DigitChar(n)>> ELSE NatToStr(n \div 10) \o <<DigitChar(n % 10)>>

\* the ascending sequence of the elements of a finite set of numbers
RECURSIVE SeqOfSet(_)
SeqOfSet(S) ==
    IF S = {} THEN <<>>
    ELSE LET lo == CHOOSE x \in S : \A y \in S : x <= y
         IN  <<lo>> \o SeqOfSet(S \ {lo})

Username(t) == <<Letters[t]>>
VideoNumber(t, k) == 100 * t + k
VideoUrl(t, k) == <<"/", "@">> \o Username(t) \o <<"/", "v", "/">> \o NatToStr(VideoNumber(t, k))
LikeThumbnail(t, k) == <<"/", "o", "/">> \o NatToStr(VideoNumber(t, k)) \o <<"~", "c", ".", "j", "?", "x">>
PlayThumbnail(t, k) == <<"/", "p", "/">> \o NatToStr(VideoNumber(t, k)) \o <<".", "j">>
PlayText(k) == IF k % 3 = 1 THEN <<"1", "K">> ELSE IF k % 3 = 2 THEN <<>> ELSE <<"7">>

\* the dictionary the like pass builds for item k of target t's page (lines 355-382)
LikeData(t, k) ==
    [video_url |-> VideoUrl(t, k),
     video_id |-> parse_tiktok_video_url(VideoUrl(t, k)).video_id,
     account_username |-> parse_tiktok_video_url(VideoUrl(t, k)).account_username,
     video_thumbnail_url |-> LikeThumbnail(t, k),
     video_alt_info_text |-> <<"t">> \o NatToStr(k),
     like_count_text |-> IF k % 2 = 1 THEN <<"5">> ELSE <<"2", ".", "5", "K">>,
     crawling_algorithm |-> "selenium-human-like-1"]

\* the dictionary the play pass builds for item k of the creator tab (lines 503-513)
PlayData(t, k) == [video_thumbnail_url |-> PlayThumbnail(t, k), play_count_text |-> PlayText(k)]

LikeDatas(t, S) == [i \in 1..Cardinality(S) |-> LikeData(t, SeqOfSet(S)[i])]
PlayDatas(t, S) == [i \in 1..Cardinality(S) |-> PlayData(t, SeqOfSet(S)[i])]

\* the dictionary get_video_heavy_data_from_video_page builds on the detail page of like_data
HeavyData(like_data) ==
    [video_url |-> like_data.video_url,
     account_username |-> like_data.account_username,
     like_count_text |-> like_data.like_count_text,
     comment_count_text |-> <<"3">>,
     collect_count_text |-> <<"1", ",", "2", "0", "0">>,
     crawling_algorithm |-> "selenium-human-like-1"]

\* VideoHeavyRawData(...) built by parse_and_save_video_heavy_data
VideoHeavyRawData(heavy_data, thumbnail_url, now) ==
    [video_url |-> heavy_data.video_url,
     video_id |-> parse_tiktok_video_url(heavy_data.video_url).video_id,
     account_username |-> heavy_data.account_username,
     video_thumbnail_url |-> thumbnail_url,
     play_count_text |-> NULL,
     play_count |-> NullInt,
     like_count_text |-> heavy_data.like_count_text,
     like_count |-> parse_tiktok_number(heavy_data.like_count_text),
     comment_count_text |-> heavy_data.comment_count_text,
     comment_count |-> parse_tiktok_number(heavy_data.comment_count_text),
     collect_count_text |-> heavy_data.collect_count_text,
     collect_count |-> parse_tiktok_number(heavy_data.collect_count_text),
     crawling_algorithm |-> heavy_data.crawling_algorithm,
     crawled_at |-> now]

\* ------------------------------------------------------------------------
\* Persistence boundary (CrawlerAccountRepository, FavoriteAccountRepository)
\* ------------------------------------------------------------------------
\* ORDER BY (last_crawled_at IS NULL) DESC, last_crawled_at ASC
CrawlerBefore(a, b) ==
    \/ a.last_crawled_at = NullTime /\ b.last_crawled_at # NullTime
    \/ a.last_crawled_at # NullTime /\ b.last_crawled_at # NullTime /\ a.last_crawled_at < b.last_crawled_at

\* variant: the WHERE is_alive = TRUE is missing
get_an_available_crawler_account_any(rows) ==
    {i \in DOMAIN rows : \A j \in DOMAIN rows : ~CrawlerBefore(rows[j], rows[i])}

\* the ids get_an_available_crawler_account may return (rows that tie come in any order)
get_an_available_crawler_account(rows) ==
    {i \in DOMAIN rows :
        /\ rows[i].is_alive
        /\ \A j \in DOMAIN rows : rows[j].is_alive => ~CrawlerBefore(rows[j], rows[i])}

\* variant: the UPDATE is not carried out
update_crawler_account_last_crawled_lost(rows, id, now) == rows

update_crawler_account_last_crawled(rows, id, now) ==
    [i \in DOMAIN rows |-> IF i = id THEN [rows[i] EXCEPT !.last_crawled_at = now] ELSE rows[i]]

\* ORDER BY (last_crawled_at IS NULL) DESC, crawl_priority DESC, last_crawled_at ASC
FavoriteBefore(a, b) ==
    \/ a.last_crawled_at = NullTime /\ b.last_crawled_at # NullTime
    \/ /\ (a.last_crawled_at = NullTime) = (b.last_crawled_at = NullTime)
       /\ \/ a.crawl_priority > b.crawl_priority
          \/ a.crawl_priority = b.crawl_priority /\ a.last_crawled_at < b.last_crawled_at

\* variant: the LIMIT is missing
get_favorite_accounts_unlimited(rows, crawler_account_id, limit) ==
    LET sel == {i \in DOMAIN rows : rows[i].crawler_account_id = crawler_account_id
                                     /\ rows[i].favorite_account_is_alive}
        n == Cardinality(sel)
    IN  {q \in [1..n -> sel] :
            \A i, j \in 1..n : i < j => q[i] # q[j] /\ ~FavoriteBefore(rows[q[j]], rows[q[i]])}

\* the lists of ids get_favorite_accounts may return (rows that tie come in any order)
get_favorite_accounts(rows, crawler_account_id, limit) ==
    LET sel == {i \in DOMAIN rows : rows[i].crawler_account_id = crawler_account_id
                                     /\ rows[i].favorite_account_is_alive}
        n == Min(limit, Cardinality(sel))
    IN  {q \in [1..n -> sel] :
            /\ \A i, j \in 1..n : i < j => q[i] # q[j] /\ ~FavoriteBefore(rows[q[j]], rows[q[i]])
            /\ \A i \in 1..n : \A x \in sel : FavoriteBefore(rows[x], rows[q[i]]) => \E j \in 1..n : q[j] = x}

\* variant: the UPDATE sets crawl_priority as well
update_favorite_account_last_crawled_and_priority(rows, username, now) ==
    [i \in DOMAIN rows |->
        IF rows[i].favorite_account_username = username
        THEN [rows[i] EXCEPT !.last_crawled_at = now, !.crawl_priority = 0] ELSE rows[i]]

\* UPDATE favorite_accounts SET last_crawled_at = %s WHERE favorite_account_username = %s
update_favorite_account_last_crawled(rows, username, now) ==
    [i \in DOMAIN rows |->
        IF rows[i].favorite_account_username = username
        THEN [rows[i] EXCEPT !.last_crawled_at = now] ELSE rows[i]]


\* SELECT ... FROM crawler_accounts WHERE id = %s (0 when there is no such row)
get_crawler_account_by_id(rows, id) == IF id \in DOMAIN rows THEN id ELSE 0

\* ------------------------------------------------------------------------
\* Control flow of the batch loops
\* ------------------------------------------------------------------------
\* the loop goes on with the next element, or leaves when there is none
AfterTarget(i, n, first, after) ==
    IF i < n THEN [idx |-> i + 1, pc |-> first] ELSE [idx |-> i, pc |-> after]

\* variant: "break" instead of "continue"
AfterFailedTargetBreak(i, n, first, after) == [idx |-> i, pc |-> after]

\* variant: the failed target goes on to the update of its last-crawled timestamp
AfterFailedTargetUpdate(i, n, first, after) ==
    [idx |-> i, pc |-> IF first = "light_nav_user" THEN "light_update" ELSE "heavy_update"]

\* "continue" after a failed step and in "except Exception" of the batch loop
AfterFailedTarget(i, n, first, after) == AfterTarget(i, n, first, after)

\* variant: main() stops after the light batch
AfterLightStop == "stop"

\* what follows the light batch in main()
AfterLight == IF mode = "both" THEN "heavy_fetch" ELSE "stop"

argVars == <<mode, max_videos_per_account, max_accounts, args_crawler_account_id>>
numberVars == <<number_text, number_result, number_raised>>
timeVars == <<time_input, time_base, time_result, time_raised>>
urlVars == <<url_input, url_result, url_raised>>
essenceVars == <<essence_input, essence_result, essence_raised>>
parseVars == <<numberVars, timeVars, urlVars, essenceVars>>
runVars == <<session, last_crawled_writes, quit_calls, last_saved, parseVars, runs, sideVars>>
histVars == <<runVars, record_error>>

\* no per-record error was met
NoRecordError == [fn |-> "none", errors |-> 0, lost |-> 0, surfaced |-> FALSE]

\* function fn met errors in this many records, lost that many records that had
\* no error, and an exception left the function or not
RecordError(fn, errors, lost, surfaced) ==
    [fn |-> fn, errors |-> errors, lost |-> lost, surfaced |-> surfaced]
corrVars == <<play_count_not_found, emitted, not_found_trace, returned>>
targetVars == <<light_like_datas, light_play_datas, existing_video_ids, vidx, visited>>

\* the step went well
Ok == UNCHANGED <<raised, interrupted, faults>>

\* the environment makes the step fail or interrupts it
Fault == faults > 0 /\ faults' = faults - 1

\* a failure that the code catches
Caught == Fault /\ UNCHANGED <<raised, interrupted>>

\* a KeyboardInterrupt: no "except Exception" catches it, the finally of main() runs
KeyboardInterrupt ==
    /\ Fault
    /\ raised' = "KeyboardInterrupt"
    /\ interrupted' = TRUE
    /\ pc' = "stop"

\* an interrupt raised inside a parser: the bare "except:" swallows it
Swallowed == Fault /\ interrupted' = TRUE /\ UNCHANGED raised

\* an Exception that leaves the batch function reaches the finally of main()
Escaped ==
    /\ Fault
    /\ raised' = "Exception"
    /\ pc' = "stop"
    /\ UNCHANGED interrupted

\* the iteration of the current target ends; failedNow tells whether by a failure
EndTarget(first, after, failedNow) ==
    LET a == IF failedNow THEN AfterFailedTarget(idx, Len(favorite_account_list), first, after)
                          ELSE AfterTarget(idx, Len(favorite_account_list), first, after)
    IN  /\ IF failedNow THEN Caught ELSE Ok
        /\ idx' = a.idx
        /\ pc' = a.pc
        /\ failed' = IF failedNow THEN failed \cup {favorite_account_list[idx]} ELSE failed
        /\ light_like_datas' = <<>>
        /\ light_play_datas' = <<>>
        /\ existing_video_ids' = {}
        /\ vidx' = 0
        /\ visited' = <<>>

Interrupt == KeyboardInterrupt /\ UNCHANGED <<idx, failed, targetVars>>

ResetCorr ==
    /\ play_count_not_found' = 0
    /\ emitted' = <<>>
    /\ not_found_trace' = <<>>
    /\ returned' = "none"

\* ------------------------------------------------------------------------
\* main(): start, stop
\* ------------------------------------------------------------------------
FirstBatch == IF mode \in {"light", "both"} THEN "light_fetch" ELSE "heavy_fetch"

\* variant: the browser is left open
quit_driver_forgotten(d) == d

\* SeleniumManager.quit_driver: "if self.driver: self.driver.quit()"; self.driver is never reset
quit_driver(d) == IF d = "open" THEN "quit" ELSE d

\* the number of driver.quit() calls after one more quit_driver
QuitCalls(d, n) == IF d = "none" THEN n ELSE n + 1

\* variant: start() logs the failure and returns
StartFailedSwallowed ==
    /\ Fault
    /\ pc' = FirstBatch
    /\ UNCHANGED <<raised, interrupted>>

\* "except Exception" of start(): after stop() the exception is raised again
StartFailed == Escaped

\* start(): the identity, the browser, the login, the last-used timestamp;
\* "except Exception" calls stop() and raises again
Start ==
    /\ pc = "start"
    /\ LET found == IF args_crawler_account_id # 0
                    THEN {get_crawler_account_by_id(crawler_accounts, args_crawler_account_id)} \ {0}
                    ELSE get_an_available_crawler_account(crawler_accounts)
       IN  \/ /\ found = {}
              /\ raised' = "Exception"
              /\ pc' = "stop"
              /\ session' = "failed"
              /\ UNCHANGED <<crawler_account, driver, page, crawler_accounts, clock, interrupted,
                             faults, last_crawled_writes, quit_calls>>
           \/ \E a \in found :
                /\ crawler_account' = a
                /\ \/ /\ driver' = "open"
                      /\ page' = "home"
                      /\ crawler_accounts' = update_crawler_account_last_crawled(crawler_accounts, a, clock)
                      /\ last_crawled_writes' = last_crawled_writes + 1
                      /\ clock' = clock + 1
                      /\ pc' = FirstBatch
                      /\ session' = "established"
                      /\ Ok
                      /\ UNCHANGED quit_calls
                   \/ /\ driver' = "none"
                      /\ StartFailed
                      /\ session' = "failed"
                      /\ UNCHANGED <<page, crawler_accounts, clock, last_crawled_writes, quit_calls>>
                   \/ /\ driver' = quit_driver("open")
                      /\ quit_calls' = QuitCalls("open", quit_calls)
                      /\ page' \in {"none", "login", "home"}
                      /\ StartFailed
                      /\ session' = "failed"
                      /\ UNCHANGED <<crawler_accounts, clock, last_crawled_writes>>
                   \/ /\ driver' = "open"
                      /\ page' = "login"
                      /\ KeyboardInterrupt
                      /\ session' = "failed"
                      /\ UNCHANGED <<crawler_accounts, clock, last_crawled_writes, quit_calls>>
    /\ UNCHANGED <<favorite_accounts, video_light, video_heavy, argVars, favorite_account_list,
                   idx, targetVars, corrVars, attempted, not_found, failed, written, last_saved,
                   parseVars, record_error, runs, sideVars>>

\* stop(): "if self.selenium_manager: self.selenium_manager.quit_driver()"
Stop ==
    /\ pc = "stop"
    /\ driver' = quit_driver(driver)
    /\ quit_calls' = QuitCalls(driver, quit_calls)
    /\ pc' = "done"
    /\ UNCHANGED <<crawler_accounts, favorite_accounts, video_light, video_heavy, clock, argVars,
                   crawler_account, page, favorite_account_list, idx, targetVars, corrVars,
                   attempted, not_found, interrupted, failed, written, faults, raised,
                   session, last_crawled_writes, last_saved, parseVars, record_error, runs, sideVars>>

\* ------------------------------------------------------------------------
\* crawl_favorite_accounts_light
\* ------------------------------------------------------------------------
Target == favorite_account_list[idx]

LightFetch ==
    /\ pc = "light_fetch"
    /\ attempted' = <<>>
    /\ not_found' = {}
    /\ failed' = {}
    /\ written' = {}
    /\ \/ \E q \in get_favorite_accounts(favorite_accounts, crawler_account, max_accounts) :
            /\ favorite_account_list' = q
            /\ idx' = IF q = <<>> THEN 0 ELSE 1
            /\ pc' = IF q = <<>> THEN AfterLight ELSE "light_nav_user"
            /\ Ok
       \/ /\ favorite_account_list' = <<>>
          /\ idx' = 0
          /\ Escaped
    /\ UNCHANGED <<crawler_accounts, favorite_accounts, video_light, video_heavy, clock, argVars, histVars,
                   crawler_account, driver, page, targetVars, corrVars>>

\* navigate_to_user_page and the "continue" of the batch loop
LightNavUser ==
    /\ pc = "light_nav_user"
    /\ attempted' = Append(attempted, Target)
    /\ ResetCorr
    /\ record_error' = NoRecordError
    /\ \/ /\ page' = "user"
          /\ pc' = "light_like"
          /\ Ok
          /\ UNCHANGED <<idx, failed, targetVars, not_found>>
       \/ /\ page' = "unknown"
          /\ EndTarget("light_nav_user", AfterLight, TRUE)
          /\ UNCHANGED not_found
       \/ /\ page' = "not_found"
          /\ not_found' = not_found \cup {Target}
          /\ EndTarget("light_nav_user", AfterLight, TRUE)
       \/ /\ page' = "unknown"
          /\ Interrupt
          /\ UNCHANGED not_found
    /\ UNCHANGED <<crawler_accounts, favorite_accounts, video_light, video_heavy, clock, argVars, runVars,
                   crawler_account, driver, favorite_account_list, written>>

\* variant: the play pass is extracted right after the like pass
AfterLikePassToPlay == "light_play"

\* after the like pass the light crawl opens the first video's page
AfterLikePass == "light_nav_video"

\* how get_video_light_like_datas_from_user_page may end on a page of n items.
\* "except NoSuchElementException: continue" skips the items of which an element
\* is absent; any other exception in one item reaches "except Exception" of the
\* function, which returns []; when the wait for the items fails, that handler
\* reads video_elements, which is unbound, and its UnboundLocalError leaves the
\* function and is caught by the batch loop
LikePassOutcomes(n) ==
    {[S |-> S, record_error |-> RecordError("like", n - Cardinality(S), 0, FALSE)] : S \in (SUBSET (1..n)) \ {{}}}
    \cup {[S |-> {}, record_error |-> RecordError("like", n, 0, FALSE)],
          [S |-> {}, record_error |-> RecordError("like", 1, n - 1, FALSE)],
          [S |-> {}, record_error |-> NoRecordError]}

\* get_video_light_like_datas_from_user_page and "if not light_like_datas: continue"
LightLike ==
    /\ pc = "light_like"
    /\ \/ \E o \in LikePassOutcomes(Min(PageVideos, max_videos_per_account)) :
            /\ record_error' = o.record_error
            /\ IF o.S = {}
               THEN EndTarget("light_nav_user", AfterLight, TRUE)
               ELSE /\ light_like_datas' = LikeDatas(Target, o.S)
                    /\ pc' = AfterLikePass
                    /\ Ok
                    /\ UNCHANGED <<idx, failed, light_play_datas, existing_video_ids, vidx, visited>>
       \/ Interrupt /\ UNCHANGED record_error
    /\ UNCHANGED <<crawler_accounts, favorite_accounts, video_light, video_heavy, clock, argVars, runVars,
                   crawler_account, driver, page, favorite_account_list, corrVars, attempted,
                   not_found, written>>

\* navigate_to_video_page(first_url)
LightNavVideo ==
    /\ pc = "light_nav_video"
    /\ \/ /\ page' = "video"
          /\ pc' = "light_nav_tab"
          /\ Ok
          /\ UNCHANGED <<idx, failed, targetVars>>
       \/ /\ page' = "unknown"
          /\ EndTarget("light_nav_user", AfterLight, TRUE)
       \/ /\ page' = "unknown"
          /\ Interrupt
    /\ UNCHANGED <<crawler_accounts, favorite_accounts, video_light, video_heavy, clock, argVars, histVars,
                   crawler_account, driver, favorite_account_list, corrVars, attempted,
                   not_found, written>>

\* navigate_to_video_page_creator_videos_tab
LightNavTab ==
    /\ pc = "light_nav_tab"
    /\ \/ /\ page' = "creator_tab"
          /\ pc' = "light_play"
          /\ Ok
          /\ UNCHANGED <<idx, failed, targetVars>>
       \/ /\ page' = "video"
          /\ EndTarget("light_nav_user", AfterLight, TRUE)
       \/ /\ page' = "video"
          /\ Interrupt
    /\ UNCHANGED <<crawler_accounts, favorite_accounts, video_light, video_heavy, clock, argVars, histVars,
                   crawler_account, driver, favorite_account_list, corrVars, attempted,
                   not_found, written>>

\* the creator tab lists every video of the page, or misses the newest one
CreatorTabItems == {1..PageVideos, 2..PageVideos}

\* get_video_light_play_datas_from_video_page_creator_videos_tab: the items of
\* which an element is absent are skipped; any other exception in one item makes
\* the function return []; when the wait for the items fails, the handler's read of
\* the unbound video_elements raises, and the batch loop catches it
LightPlay ==
    /\ pc = "light_play"
    /\ \/ \E S \in CreatorTabItems :
            /\ light_play_datas' = PlayDatas(Target, S)
            /\ record_error' = RecordError("play", PageVideos - Cardinality(S), 0, FALSE)
            /\ pc' = "light_save"
            /\ Ok
            /\ UNCHANGED <<idx, failed, light_like_datas, existing_video_ids, vidx, visited>>
       \/ /\ light_play_datas' = <<>>
          /\ record_error' = RecordError("play", 1, PageVideos - 1, FALSE)
          /\ pc' = "light_save"
          /\ Caught
          /\ UNCHANGED <<idx, failed, light_like_datas, existing_video_ids, vidx, visited>>
       \/ /\ record_error' = NoRecordError
          /\ EndTarget("light_nav_user", AfterLight, TRUE)
       \/ Interrupt /\ UNCHANGED record_error
    /\ UNCHANGED <<crawler_accounts, favorite_accounts, video_light, video_heavy, clock, argVars, runVars,
                   crawler_account, driver, page, favorite_account_list, corrVars, attempted,
                   not_found, written>>

\* the dict built by the first loop of parse_and_save_video_light_datas
PlayCountMap(P) == BuildPlayCountMap(P, 1, <<>>)

\* variant: only the like-pass elements that have a play-pass partner give a record
LightRecordsInnerJoin(L, P, now) ==
    CHOOSE recs \in {[i \in 1..Len(SelectSeq(L, LAMBDA d : extract_thumbnail_essence(d.video_thumbnail_url) \in DOMAIN m))
                         |-> VideoLightRawData(
                                 SelectSeq(L, LAMBDA d : extract_thumbnail_essence(d.video_thumbnail_url) \in DOMAIN m)[i],
                                 m, now)] : m \in {PlayCountMap(P)}} : TRUE

\* the records the second loop builds, in like-pass order
LightRecords(L, P, now) ==
    CHOOSE recs \in {[i \in 1..Len(L) |-> VideoLightRawData(L[i], m, now)] : m \in {PlayCountMap(P)}} : TRUE

\* how a call of parse_and_save_video_light_datas on n records may go:
\* to the end, a database error or an interrupt in the save of record at,
\* an interrupt inside parse_tiktok_number for record at
SaveOutcomes(n) ==
    {[kind |-> "ok", at |-> 0]} \cup
    {[kind |-> k, at |-> i] : k \in {"db_error", "interrupt", "interrupt_in_like_parser",
                                     "interrupt_in_play_parser"}, i \in 1..n}

\* parse_tiktok_number catches everything, an interrupt too, and returns None
RecordUnder(o, i, rec) ==
    IF o.at = i /\ o.kind = "interrupt_in_like_parser" THEN [rec EXCEPT !.like_count = NullInt]
    ELSE IF o.at = i /\ o.kind = "interrupt_in_play_parser" THEN [rec EXCEPT !.play_count = NullInt]
    ELSE rec

ParseAndSaveLight ==
    /\ pc = "light_save"
    /\ \E recs0 \in {LightRecords(light_like_datas, light_play_datas, clock)} :
         \E o \in SaveOutcomes(Len(recs0)) :
             LET recs == [i \in 1..Len(recs0) |-> RecordUnder(o, i, recs0[i])]
                 stopped == o.kind \in {"db_error", "interrupt"}
                 n == IF stopped THEN o.at - 1 ELSE Len(recs)
                 c == IF stopped THEN o.at ELSE Len(recs)
                 trace == NotFoundTrace(recs, c)
             IN  /\ video_light' = SaveLightUpTo(video_light, recs, n)
                 /\ emitted' = SubSeq(recs, 1, n)
                 /\ not_found_trace' = trace
                 /\ play_count_not_found' = IF c = 0 THEN 0 ELSE trace[c]
                 /\ written' = IF n > 0 THEN written \cup {Target} ELSE written
                 /\ \/ /\ o.kind = "ok"
                       /\ returned' = "True"
                       /\ pc' = "light_update"
                       /\ Ok
                       /\ UNCHANGED <<idx, failed, targetVars>>
                    \/ /\ o.kind = "db_error"
                       /\ returned' = "False"
                       /\ pc' = "light_update"
                       /\ Caught
                       /\ UNCHANGED <<idx, failed, targetVars>>
                    \/ /\ o.kind \in {"interrupt_in_like_parser", "interrupt_in_play_parser"}
                       /\ returned' = "True"
                       /\ pc' = "light_update"
                       /\ Swallowed
                       /\ UNCHANGED <<idx, failed, targetVars>>
                    \/ /\ o.kind = "interrupt"
                       /\ returned' = "none"
                       /\ Interrupt
    /\ UNCHANGED <<crawler_accounts, favorite_accounts, video_heavy, clock, argVars, histVars,
                   crawler_account, driver, page, favorite_account_list, attempted, not_found>>

\* update_favorite_account_last_crawled and the end of the iteration
LightUpdate ==
    /\ pc = "light_update"
    /\ \/ /\ favorite_accounts' = update_favorite_account_last_crawled(
                                      favorite_accounts, favorite_accounts[Target].favorite_account_username, clock)
          /\ clock' = clock + 1
          /\ EndTarget("light_nav_user", AfterLight, FALSE)
       \/ /\ UNCHANGED <<favorite_accounts, clock>>
          /\ EndTarget("light_nav_user", AfterLight, TRUE)
       \/ /\ UNCHANGED <<favorite_accounts, clock>>
          /\ Interrupt
    /\ UNCHANGED <<crawler_accounts, video_light, video_heavy, argVars, histVars, crawler_account, driver,
                   page, favorite_account_list, corrVars, attempted, not_found, written>>

\* ------------------------------------------------------------------------
\* crawl_favorite_accounts_heavy
\* ------------------------------------------------------------------------
HeavyFetch ==
    /\ pc = "heavy_fetch"
    /\ attempted' = <<>>
    /\ not_found' = {}
    /\ failed' = {}
    /\ written' = {}
    /\ ResetCorr
    /\ \/ \E q \in get_favorite_accounts(favorite_accounts, crawler_account, max_accounts) :
            /\ favorite_account_list' = q
            /\ idx' = IF q = <<>> THEN 0 ELSE 1
            /\ pc' = IF q = <<>> THEN "stop" ELSE "heavy_existing"
            /\ Ok
       \/ /\ favorite_account_list' = <<>>
          /\ idx' = 0
          /\ Escaped
    /\ UNCHANGED <<crawler_accounts, favorite_accounts, video_light, video_heavy, clock, argVars, histVars,
                   crawler_account, driver, page, targetVars>>

\* existing_video_ids = get_existing_heavy_data_video_ids(username)
HeavyExisting ==
    /\ pc = "heavy_existing"
    /\ attempted' = Append(attempted, Target)
    /\ ResetCorr
    /\ record_error' = NoRecordError
    /\ \/ /\ existing_video_ids' = get_existing_heavy_data_video_ids(
                                       video_heavy, favorite_accounts[Target].favorite_account_username)
          /\ pc' = "heavy_nav_user"
          /\ Ok
          /\ UNCHANGED <<idx, failed, light_like_datas, light_play_datas, vidx, visited>>
       \/ EndTarget("heavy_existing", "stop", TRUE)
       \/ Interrupt
    /\ UNCHANGED <<crawler_accounts, favorite_accounts, video_light, video_heavy, clock, argVars, runVars,
                   crawler_account, driver, page, favorite_account_list, not_found, written>>

\* navigate_to_user_page and the "continue" of the batch loop
HeavyNavUser ==
    /\ pc = "heavy_nav_user"
    /\ \/ /\ page' = "user"
          /\ pc' = "heavy_like"
          /\ Ok
          /\ UNCHANGED <<idx, failed, targetVars, not_found>>
       \/ /\ page' = "unknown"
          /\ EndTarget("heavy_existing", "stop", TRUE)
          /\ UNCHANGED not_found
       \/ /\ page' = "not_found"
          /\ not_found' = not_found \cup {Target}
          /\ EndTarget("heavy_existing", "stop", TRUE)
       \/ /\ page' = "unknown"
          /\ Interrupt
          /\ UNCHANGED not_found
    /\ UNCHANGED <<crawler_accounts, favorite_accounts, video_light, video_heavy, clock, argVars, histVars,
                   crawler_account, driver, favorite_account_list, corrVars, attempted, written>>

\* get_video_light_like_datas_from_user_page, then the per-video loop starts
HeavyLike ==
    /\ pc = "heavy_like"
    /\ \/ \E o \in LikePassOutcomes(Min(PageVideos, max_videos_per_account)) :
            /\ record_error' = o.record_error
            /\ IF o.S = {}
               THEN EndTarget("heavy_existing", "stop", TRUE)
               ELSE /\ light_like_datas' = LikeDatas(Target, o.S)
                    /\ vidx' = 1
                    /\ pc' = "heavy_scan"
                    /\ Ok
                    /\ UNCHANGED <<idx, failed, light_play_datas, existing_video_ids, visited>>
       \/ Interrupt /\ UNCHANGED record_error
    /\ UNCHANGED <<crawler_accounts, favorite_accounts, video_light, video_heavy, clock, argVars, runVars,
                   crawler_account, driver, page, favorite_account_list, corrVars, attempted,
                   not_found, written>>

\* variant: the URL is looked up among the ids
AlreadySeenByUrl(like_data, ids) == like_data.video_url \in ids

\* if like_data["video_id"] in existing_video_ids
AlreadySeen(like_data, ids) == like_data.video_id \in ids

\* variant: "continue", the seen video is skipped and the scan goes on
AfterSeenVideoSkip(i) == [vidx |-> i + 1, pc |-> "heavy_scan"]

\* "break": the scan of the target stops at an already seen video
AfterSeenVideo(i) == [vidx |-> i, pc |-> "heavy_update"]

\* the head of the per-video loop: the dedup test and navigate_to_video_page
HeavyScan ==
    /\ pc = "heavy_scan"
    /\ LET L == light_like_datas
           n == Min(Len(L), max_videos_per_account)
       IN  \/ /\ vidx > n
              /\ pc' = "heavy_update"
              /\ Ok
              /\ UNCHANGED <<page, vidx, visited>>
           \/ /\ vidx <= n
              /\ AlreadySeen(L[vidx], existing_video_ids)
              /\ vidx' = AfterSeenVideo(vidx).vidx
              /\ pc' = AfterSeenVideo(vidx).pc
              /\ Ok
              /\ UNCHANGED <<page, visited>>
           \/ /\ vidx <= n
              /\ ~AlreadySeen(L[vidx], existing_video_ids)
              /\ visited' = Append(visited, L[vidx].video_id)
              /\ \/ /\ page' = "video"
                    /\ pc' = "heavy_extract"
                    /\ Ok
                    /\ UNCHANGED vidx
                 \/ /\ page' = "unknown"
                    /\ vidx' = vidx + 1
                    /\ pc' = "heavy_scan"
                    /\ Caught
                 \/ /\ page' = "unknown"
                    /\ KeyboardInterrupt
                    /\ UNCHANGED vidx
    /\ UNCHANGED <<crawler_accounts, favorite_accounts, video_light, video_heavy, clock, argVars, histVars,
                   crawler_account, driver, favorite_account_list, idx, light_like_datas,
                   light_play_datas, existing_video_ids, corrVars, attempted, not_found, failed,
                   written>>

\* get_video_heavy_data_from_video_page: a failing find_element gives None and
\* the loop skips the video; when driver.current_url fails, the handler's read of
\* the unbound video_url raises, and the batch loop catches it
HeavyExtract ==
    /\ pc = "heavy_extract"
    /\ \/ /\ pc' = "heavy_save"
          /\ Ok
          /\ UNCHANGED <<idx, failed, targetVars, record_error>>
       \/ /\ vidx' = vidx + 1
          /\ pc' = "heavy_scan"
          /\ record_error' = RecordError("heavy_extract", 1, 0, FALSE)
          /\ Caught
          /\ UNCHANGED <<idx, failed, light_like_datas, light_play_datas, existing_video_ids, visited>>
       \/ /\ record_error' = RecordError("heavy_extract", 1,
                                         Min(Len(light_like_datas), max_videos_per_account) - vidx, TRUE)
          /\ EndTarget("heavy_existing", "stop", TRUE)
       \/ /\ KeyboardInterrupt
          /\ UNCHANGED <<idx, failed, targetVars, record_error>>
    /\ UNCHANGED <<crawler_accounts, favorite_accounts, video_light, video_heavy, clock, argVars, runVars,
                   crawler_account, driver, page, favorite_account_list, corrVars, attempted, not_found,
                   written>>

\* parse_and_save_video_heavy_data, then the pause of _random_sleep
HeavySave ==
    /\ pc = "heavy_save"
    /\ LET rec == VideoHeavyRawData(HeavyData(light_like_datas[vidx]),
                                    light_like_datas[vidx].video_thumbnail_url, clock)
       IN  \/ /\ video_heavy' = save_video_heavy_data(video_heavy, rec)
              /\ written' = written \cup {Target}
              /\ returned' = "True"
              /\ pc' = "heavy_back"
              /\ Ok
              /\ UNCHANGED record_error
           \/ /\ video_heavy' = save_video_heavy_data(video_heavy, [rec EXCEPT !.like_count = NullInt])
              /\ written' = written \cup {Target}
              /\ returned' = "True"
              /\ pc' = "heavy_back"
              /\ Swallowed
              /\ UNCHANGED record_error
           \/ /\ returned' = "False"
              /\ pc' = "heavy_back"
              /\ Caught
              /\ record_error' = RecordError("heavy_save", 1, 0, FALSE)
              /\ UNCHANGED <<video_heavy, written>>
           \/ /\ returned' = "none"
              /\ KeyboardInterrupt
              /\ UNCHANGED <<video_heavy, written, record_error>>
           \/ /\ video_heavy' = save_video_heavy_data(video_heavy, rec)
              /\ written' = written \cup {Target}
              /\ returned' = "True"
              /\ KeyboardInterrupt
              /\ UNCHANGED record_error
    /\ UNCHANGED <<crawler_accounts, favorite_accounts, video_light, clock, argVars, runVars,
                   crawler_account, driver, page, favorite_account_list, idx, targetVars,
                   play_count_not_found, emitted, not_found_trace, attempted, not_found, failed>>

\* navigate_to_user_page_from_video_page
HeavyBack ==
    /\ pc = "heavy_back"
    /\ \/ /\ page' = "user"
          /\ vidx' = vidx + 1
          /\ pc' = "heavy_scan"
          /\ Ok
       \/ /\ page' = "video"
          /\ pc' = "heavy_update"
          /\ Caught
          /\ UNCHANGED vidx
       \/ /\ page' = "video"
          /\ KeyboardInterrupt
          /\ UNCHANGED vidx
    /\ UNCHANGED <<crawler_accounts, favorite_accounts, video_light, video_heavy, clock, argVars, histVars,
                   crawler_account, driver, favorite_account_list, idx, light_like_datas,
                   light_play_datas, existing_video_ids, visited, corrVars, attempted, not_found,
                   failed, written>>

\* update_favorite_account_last_crawled and the end of the iteration
HeavyUpdate ==
    /\ pc = "heavy_update"
    /\ \/ /\ favorite_accounts' = update_favorite_account_last_crawled(
                                      favorite_accounts, favorite_accounts[Target].favorite_account_username, clock)
          /\ clock' = clock + 1
          /\ EndTarget("heavy_existing", "stop", FALSE)
       \/ /\ UNCHANGED <<favorite_accounts, clock>>
          /\ EndTarget("heavy_existing", "stop", TRUE)
       \/ /\ UNCHANGED <<favorite_accounts, clock>>
          /\ Interrupt
    /\ UNCHANGED <<crawler_accounts, video_light, video_heavy, argVars, histVars, crawler_account, driver,
                   page, favorite_account_list, corrVars, attempted, not_found, written>>

\* ------------------------------------------------------------------------
\* Initial states and specifications
\* ------------------------------------------------------------------------
\* the seed rows: every target has priority 100; all but the last belong to crawler account 1
FavoriteRow(t, alive, last) ==
    [favorite_account_username |-> Username(t),
     crawler_account_id |-> IF t < NumTargets THEN 1 ELSE Min(2, NumCrawlers),
     favorite_account_is_alive |-> alive,
     crawl_priority |-> 100,
     last_crawled_at |-> last]

\* the seed rows of crawler_accounts
CrawlerRow(i, alive, last) ==
    [username |-> <<"c">> \o NatToStr(i),
     password |-> <<"p">> \o NatToStr(i),
     proxy |-> NULL,
     is_alive |-> alive,
     last_crawled_at |-> last]

InitCrawlerAccounts ==
    {[i \in 1..NumCrawlers |-> CrawlerRow(i, IF i = 1 THEN TRUE ELSE al, IF i = 1 THEN 1 ELSE NullTime)] :
        al \in BOOLEAN}

InitFavoriteAccounts ==
    {[t \in 1..NumTargets |-> FavoriteRow(t, IF t = 1 THEN al ELSE TRUE, NullTime)] : al \in BOOLEAN}

\* heavy rows stored by an earlier run for the videos E of target t
HeavyRows(t, E) ==
    {VideoHeavyRawData(HeavyData(LikeData(t, k)), LikeData(t, k).video_thumbnail_url, 1) : k \in E}

InitIdle ==
    /\ video_light = {}
    /\ favorite_account_list = <<>>
    /\ idx = 0
    /\ existing_video_ids = {}
    /\ light_like_datas = <<>>
    /\ light_play_datas = <<>>
    /\ vidx = 0
    /\ play_count_not_found = 0
    /\ emitted = <<>>
    /\ attempted = <<>>
    /\ visited = <<>>
    /\ not_found = {}
    /\ interrupted = FALSE
    /\ failed = {}
    /\ written = {}
    /\ not_found_trace = <<>>
    /\ faults = MaxFaults
    /\ returned = "none"
    /\ raised = "none"
    /\ session = "none"
    /\ last_crawled_writes = 0
    /\ quit_calls = 0
    /\ last_saved = [light |-> <<>>, heavy |-> <<>>]
    /\ number_text = NULL
    /\ IdleTime
    /\ IdleUrl
    /\ IdleEssence
    /\ IdleQuery
    /\ record_error = NoRecordError
    /\ number_result = NullInt
    /\ number_raised = "none"
    /\ time_result = NoneDatetime
    /\ time_raised = "none"
    /\ url_result = parse_tiktok_video_url(NULL)
    /\ url_raised = "none"
    /\ essence_result = NULL
    /\ essence_raised = "none"

\* the override names no account, the second account or an account that does not exist
Init ==
    /\ crawler_accounts \in InitCrawlerAccounts
    /\ favorite_accounts \in InitFavoriteAccounts
    /\ mode \in {"light", "heavy"}
    /\ \E E \in (IF mode = "light" THEN {{}} ELSE SUBSET (1..PageVideos)) :
          video_heavy = UNION {HeavyRows(t, E) : t \in 1..NumTargets}
    /\ max_videos_per_account \in {1, PageVideos}
    /\ max_accounts \in {1, 2}
    /\ args_crawler_account_id \in {0, 2, NumCrawlers + 1}
    /\ pc = "start"
    /\ clock = 2
    /\ crawler_account = 0
    /\ driver = "none"
    /\ page = "none"
    /\ InitIdle
    /\ IdleRepeat
    /\ IdleRuns

Next ==
    \/ Start
    \/ LightFetch
    \/ LightNavUser
    \/ LightLike
    \/ LightNavVideo
    \/ LightNavTab
    \/ LightPlay
    \/ ParseAndSaveLight
    \/ LightUpdate
    \/ HeavyFetch
    \/ HeavyExisting
    \/ HeavyNavUser
    \/ HeavyLike
    \/ HeavyScan
    \/ HeavyExtract
    \/ HeavySave
    \/ HeavyBack
    \/ HeavyUpdate
    \/ Stop

Spec == Init /\ [][Next]_vars

\* ------------------------------------------------------------------------
\* The three modes of main()
\* ------------------------------------------------------------------------
\* argparse: choices=["light", "heavy", "both"]
Modes == {"light", "heavy", "both"}

\* at most one step of a run fails or is interrupted
ModesFaults == 1

\* a run without override whose steps fail at most ModesFaults times
InitBounded(modes, videos, accounts) ==
    /\ crawler_accounts \in InitCrawlerAccounts
    /\ favorite_accounts = [t \in 1..NumTargets |-> FavoriteRow(t, TRUE, NullTime)]
    /\ mode \in modes
    /\ video_heavy = {}
    /\ max_videos_per_account \in videos
    /\ max_accounts \in accounts
    /\ args_crawler_account_id = 0
    /\ pc = "start"
    /\ clock = 2
    /\ crawler_account = 0
    /\ driver = "none"
    /\ page = "none"
    /\ IdleRuns
    /\ video_light = {}
    /\ favorite_account_list = <<>>
    /\ idx = 0
    /\ existing_video_ids = {}
    /\ light_like_datas = <<>>
    /\ light_play_datas = <<>>
    /\ vidx = 0
    /\ play_count_not_found = 0
    /\ emitted = <<>>
    /\ attempted = <<>>
    /\ visited = <<>>
    /\ not_found = {}
    /\ interrupted = FALSE
    /\ failed = {}
    /\ written = {}
    /\ not_found_trace = <<>>
    /\ faults \in 0..ModesFaults
    /\ returned = "none"
    /\ raised = "none"
    /\ session = "none"
    /\ last_crawled_writes = 0
    /\ quit_calls = 0
    /\ last_saved = [light |-> <<>>, heavy |-> <<>>]
    /\ number_text = NULL
    /\ IdleTime
    /\ IdleUrl
    /\ IdleEssence
    /\ IdleSide
    /\ record_error = NoRecordError
    /\ number_result = NullInt
    /\ number_raised = "none"
    /\ time_result = NoneDatetime
    /\ time_raised = "none"
    /\ url_result = parse_tiktok_video_url(NULL)
    /\ url_raised = "none"
    /\ essence_result = NULL
    /\ essence_raised = "none"

\* the three modes, one favorite account a batch, one video a favorite account
InitModes == InitBounded(Modes, {1}, {1})

SpecModes == InitModes /\ [][Next]_vars

\* one batch, light or heavy, with each limit below and at the size of what there is
InitBatch == InitBounded({"light", "heavy"}, {1, PageVideos}, {1, 2})

SpecBatch == InitBatch /\ [][Next]_vars

\* mode both with the limit below and at the number of favorite accounts of a crawler account
InitBoth == InitBounded({"both"}, {1}, {1, 2})

SpecBoth == InitBoth /\ [][Next]_vars

\* --- run after run of the light batch with one crawler account and one limit
\* the runs stop after this many crawls
MaxCrawls == 4

\* the clock when the first run begins
FirstRunAt == 2

\* every favorite account belongs to crawler account 1 and was crawled before or never
RepeatFavoriteAccounts ==
    {[t \in 1..NumTargets |-> [FavoriteRow(t, TRUE, f[t]) EXCEPT !.crawler_account_id = 1]] :
        f \in [1..NumTargets -> {NullTime, 1}]}

InitRepeat ==
    /\ crawler_accounts = [i \in 1..NumCrawlers |-> CrawlerRow(i, TRUE, 1)]
    /\ favorite_accounts \in RepeatFavoriteAccounts
    /\ unreachable \in SUBSET (1..NumTargets)
    /\ max_accounts \in {1, 2}
    /\ mode = "light"
    /\ video_heavy = {}
    /\ max_videos_per_account = 1
    /\ args_crawler_account_id = 1
    /\ pc = "repeat_fetch"
    /\ clock = FirstRunAt
    /\ crawler_account = 1
    /\ driver = "open"
    /\ page = "home"
    /\ IdleRuns
    /\ InitIdle

\* the variables a run changes by its video records, its session and its failures
repeatVars ==
    <<crawler_accounts, video_light, video_heavy, argVars, crawler_account, driver, page, targetVars,
      corrVars, attempted, not_found, interrupted, failed, written, faults, raised, session,
      last_crawled_writes, quit_calls, last_saved, parseVars, record_error, runs, queryVars, unreachable>>

\* a run begins: get_favorite_accounts(self.crawler_account.id, limit=max_accounts)
RepeatFetch ==
    /\ pc = "repeat_fetch"
    /\ clock < FirstRunAt + MaxCrawls
    /\ \E q \in get_favorite_accounts(favorite_accounts, crawler_account, max_accounts) :
         /\ favorite_account_list' = q
         /\ idx' = IF q = <<>> THEN 0 ELSE 1
         /\ pc' = IF q = <<>> THEN "repeat_fetch" ELSE "repeat_visit"
    /\ UNCHANGED <<favorite_accounts, clock, repeatVars>>

\* one iteration of the batch loop: "continue" when navigate_to_user_page
\* returns False, else the crawl and the update of last_crawled_at; after the
\* last iteration the run is over and the next run begins
RepeatVisit ==
    /\ pc = "repeat_visit"
    /\ IF Target \in unreachable
       THEN UNCHANGED <<favorite_accounts, clock>>
       ELSE /\ favorite_accounts' = update_favorite_account_last_crawled(
                                        favorite_accounts, favorite_accounts[Target].favorite_account_username, clock)
            /\ clock' = clock + 1
    /\ \E a \in {AfterTarget(idx, Len(favorite_account_list), "repeat_visit", "repeat_fetch")} :
         idx' = a.idx /\ pc' = a.pc
    /\ UNCHANGED <<favorite_account_list, repeatVars>>

NextRepeat ==
    \/ RepeatFetch
    \/ RepeatVisit

\* every run ends and the next one begins
SpecRepeat == InitRepeat /\ [][NextRepeat]_vars /\ WF_vars(NextRepeat)

\* --- the session bracket on its own: start() on every table of crawler accounts
MaxStamp == 2

SelectCrawlerAccounts ==
    {[i \in 1..NumCrawlers |-> CrawlerRow(i, f[i].is_alive, f[i].last_crawled_at)] :
        f \in [1..NumCrawlers -> [is_alive : BOOLEAN, last_crawled_at : {NullTime} \cup (1..MaxStamp)]]}

InitSelect ==
    /\ crawler_accounts \in SelectCrawlerAccounts
    /\ favorite_accounts = [t \in 1..NumTargets |-> FavoriteRow(t, TRUE, NullTime)]
    /\ video_heavy = {}
    /\ mode = "light"
    /\ max_videos_per_account = PageVideos
    /\ max_accounts = 1
    /\ args_crawler_account_id \in 0..(NumCrawlers + 1)
    /\ pc = "start"
    /\ clock = MaxStamp + 1
    /\ crawler_account = 0
    /\ driver = "none"
    /\ page = "none"
    /\ InitIdle
    /\ IdleRepeat
    /\ IdleRuns

NextSelect ==
    \/ Start
    \/ Stop

SpecSelect == InitSelect /\ [][NextSelect]_vars

\* --- the correlator on its own: like and play passes drawn from bounded sets
MaxLikes == 2
MaxPlays == 2
MaxShift == 8

CorrThumbnails == {<<"/", "a">>, <<"/", "a", ".", "j", "?", "x">>, <<"/", "b", "~", "c">>}
CorrLikeThumbnails == {<<"/", "a", ".", "j", "?", "x">>, <<"/", "b", "~", "c">>}
CorrPlayTexts == {<<>>, <<"7">>, <<"1", "K">>}
CorrPlayItems == [video_thumbnail_url : CorrThumbnails, play_count_text : CorrPlayTexts]

CorrLikeLists ==
    UNION {{[i \in 1..n |-> [LikeData(1, i) EXCEPT !.video_thumbnail_url = f[i]]] :
                f \in [1..n -> CorrLikeThumbnails]} : n \in 0..MaxLikes}

CorrPlayLists == UNION {[1..n -> CorrPlayItems] : n \in 0..MaxPlays}

\* the scenario of 50 like-pass and 62 play-pass items, crawled without a failure:
\* play item j shows video j + shift
ScenarioThumbnail(i) == <<"/", "s", "/">> \o NatToStr(i)

ScenarioLikeList ==
    [i \in 1..50 |->
        [LikeData(1, i) EXCEPT !.video_thumbnail_url = ScenarioThumbnail(i) \o <<"~", "c", "?", "x">>]]

ScenarioPlayList(shift) ==
    [j \in 1..62 |->
        [video_thumbnail_url |-> ScenarioThumbnail(j + shift) \o <<".", "j">>,
         play_count_text |-> <<"1", "K">>]]

InitSession ==
    /\ crawler_accounts = [i \in 1..NumCrawlers |-> CrawlerRow(i, TRUE, IF i = 1 THEN 1 ELSE NullTime)]
    /\ favorite_accounts = [t \in 1..NumTargets |-> FavoriteRow(t, TRUE, NullTime)]
    /\ max_accounts = 1
    /\ crawler_account = 1
    /\ driver = "open"
    /\ favorite_account_list = <<1>>
    /\ idx = 1
    /\ attempted = <<1>>
    /\ video_light = {}
    /\ clock = 2
    /\ play_count_not_found = 0
    /\ emitted = <<>>
    /\ not_found = {}
    /\ interrupted = FALSE
    /\ failed = {}
    /\ written = {}
    /\ not_found_trace = <<>>
    /\ returned = "none"
    /\ raised = "none"
    /\ args_crawler_account_id = 0
    /\ session = "established"
    /\ last_crawled_writes = 1
    /\ quit_calls = 0
    /\ last_saved = [light |-> <<>>, heavy |-> <<>>]
    /\ IdleRuns
    /\ IdleSide
    /\ record_error = NoRecordError
    /\ number_result = NullInt
    /\ number_raised = "none"
    /\ time_result = NoneDatetime
    /\ time_raised = "none"
    /\ url_result = parse_tiktok_video_url(NULL)
    /\ url_raised = "none"
    /\ essence_result = NULL
    /\ essence_raised = "none"

InitCorrelate ==
    /\ InitSession
    /\ number_text = NULL
    /\ IdleTime
    /\ IdleUrl
    /\ IdleEssence
    /\ video_heavy = {}
    /\ mode = "light"
    /\ max_videos_per_account = 50
    /\ page = "creator_tab"
    /\ pc = "light_save"
    /\ existing_video_ids = {}
    /\ vidx = 0
    /\ visited = <<>>
    /\ \/ /\ light_like_datas \in CorrLikeLists
          /\ light_play_datas \in CorrPlayLists
          /\ faults = MaxFaults
       \/ /\ light_like_datas = ScenarioLikeList
          /\ \E shift \in 0..MaxShift : light_play_datas = ScenarioPlayList(shift)
          /\ faults = 0

NextCorrelate == ParseAndSaveLight

SpecCorrelate == InitCorrelate /\ [][NextCorrelate]_vars

\* --- parse_tiktok_number on its own: one call on each text of a bounded set
MaxTextLen == 4
MaxFracLen == 2

ParseAlphabet == {"1", "2", ".", ",", "K", "k", "x"}
ParseIntDigits == {"1", "2", "3"}
ParseFracDigits == {"0", "1", "5", "7", "8"}
ParseUnits == {"K", "k", "M", "m", "G", "g", "B", "b"}

\* the texts of the docstring, a product that falls short as a double, a long fraction
ParseExamples ==
    {<<"1", ",", "2", "3", "4">>, <<"1", ".", "5", "K">>, <<"3", ".", "7", "8", "M">>,
     <<"2", ".", "0", "1", "K">>, <<"1", ".", "2", "3", "4", "6", "K">>}

\* one digit, up to MaxFracLen fraction digits and a unit; the products stay below 2^31
ParseUnitTexts ==
    {<<i>> \o (IF f = <<>> THEN <<>> ELSE <<".">> \o f) \o <<u>> :
        i \in ParseIntDigits, f \in UNION {[1..n -> ParseFracDigits] : n \in 0..MaxFracLen},
        u \in {v \in ParseUnits : Upper(v) \in {"K", "M"}}}
    \cup {<<"1">> \o (IF f = <<>> THEN <<>> ELSE <<".">> \o f) \o <<u>> :
        f \in UNION {[1..n -> ParseFracDigits] : n \in 0..MaxFracLen},
        u \in {v \in ParseUnits : Upper(v) \in {"G", "B"}}}

ParseTexts ==
    {NULL, <<>>} \cup ParseExamples \cup ParseUnitTexts
    \cup UNION {[1..n -> ParseAlphabet] : n \in 1..MaxTextLen}

InitParse ==
    /\ InitSession
    /\ number_text \in ParseTexts
    /\ IdleTime
    /\ IdleUrl
    /\ IdleEssence
    /\ video_heavy = {}
    /\ mode = "light"
    /\ max_videos_per_account = PageVideos
    /\ page = "user"
    /\ pc = "parse"
    /\ faults = 0
    /\ existing_video_ids = {}
    /\ light_like_datas = <<>>
    /\ light_play_datas = <<>>
    /\ vidx = 0
    /\ visited = <<>>

\* one call of parse_tiktok_number(number_text)
ParseNumber ==
    /\ pc = "parse"
    /\ number_result' = parse_tiktok_number(number_text)
    /\ number_raised' = BareExcept(RaisedInTry(number_text))
    /\ pc' = "parsed"
    /\ UNCHANGED <<crawler_accounts, favorite_accounts, video_light, video_heavy, clock, argVars,
                   crawler_account, driver, page, favorite_account_list, idx, targetVars, corrVars,
                   attempted, not_found, interrupted, failed, written, faults, raised, session,
                   last_crawled_writes, quit_calls, last_saved, number_text, timeVars, urlVars,
                   essenceVars, record_error, runs, sideVars>>

NextParse == ParseNumber

SpecParse == InitParse /\ [][NextParse]_vars

\* ------------------------------------------------------------------------
\* parse_tiktok_time on its own
\* ------------------------------------------------------------------------
MaxMagnitude == 3
MaxTimeLen == 2

TimeAlphabet == {"3", "-", Nichi, Mae, "x"}
TimeSuffixes == {<<Byou, Mae>>, <<Fun, Mae>>, <<Ji, Kan, Mae>>, <<Nichi, Mae>>}
TimeMonths == 0..13
TimeDays == {0, 1, 15, 25, 28, 29, 30, 31, 32}
TimeYears == {2023, 2024}

\* two digits, as strftime("%d") writes them
Pad2(n) == IF n < 10 THEN <<"0">> \o NatToStr(n) ELSE NatToStr(n)

\* "N seconds ago", "N minutes ago", "N hours ago", "N days ago"
TimeRelativeTexts == {NatToStr(n) \o s : n \in 0..MaxMagnitude, s \in TimeSuffixes}

\* "M-D" and "M-DD"
TimeMonthDayTexts ==
    {NatToStr(mo) \o <<"-">> \o d : mo \in TimeMonths, d \in UNION {{NatToStr(x), Pad2(x)} : x \in TimeDays}}

\* "YYYY-MM-DD"
TimeDateTexts ==
    {NatToStr(y) \o <<"-">> \o Pad2(mo) \o <<"-">> \o Pad2(d) : y \in TimeYears, mo \in TimeMonths, d \in TimeDays}

\* a suffix without a magnitude, a magnitude that is not a number, signs, empty parts, four parts
TimeExamples ==
    {<<Nichi, Mae>>, <<"x", Ji, Kan, Mae>>, <<"-", "3", Nichi, Mae>>, <<"-", "3", "-", "2", "5">>,
     <<"3", "-", "-", "2", "5">>, <<"1", "-", "2", "-", "3", "-", "4">>, <<"+", "3", "-", "2", "5">>,
     <<"2", "0", "2", "4", "-", "6">>, <<"3", "-", "2", "5", "-">>, <<"3", "-", "x">>}

TimeTexts ==
    {NULL, <<>>} \cup TimeRelativeTexts \cup TimeMonthDayTexts \cup TimeDateTexts \cup TimeExamples
    \cup UNION {[1..n -> TimeAlphabet] : n \in 1..MaxTimeLen}

\* the values of datetime.now() at the calls
TimeBases == {Datetime(2024, 6, 15, 10, 0, 0), Datetime(2023, 1, 1, 0, 0, 30)}

InitTime ==
    /\ InitSession
    /\ number_text = NULL
    /\ time_input \in TimeTexts
    /\ time_base \in TimeBases
    /\ IdleUrl
    /\ IdleEssence
    /\ video_heavy = {}
    /\ mode = "light"
    /\ max_videos_per_account = PageVideos
    /\ page = "user"
    /\ pc = "time"
    /\ faults = 0
    /\ existing_video_ids = {}
    /\ light_like_datas = <<>>
    /\ light_play_datas = <<>>
    /\ vidx = 0
    /\ visited = <<>>

\* one call of parse_tiktok_time(time_input, time_base)
ParseTime ==
    /\ pc = "time"
    /\ time_result' = parse_tiktok_time(time_input, time_base)
    /\ time_raised' = BareExcept(RaisedInTimeTry(time_input, time_base))
    /\ pc' = "timed"
    /\ UNCHANGED <<crawler_accounts, favorite_accounts, video_light, video_heavy, clock, argVars,
                   crawler_account, driver, page, favorite_account_list, idx, targetVars, corrVars,
                   attempted, not_found, interrupted, failed, written, faults, raised, session,
                   last_crawled_writes, quit_calls, last_saved, numberVars, time_input, time_base,
                   urlVars, essenceVars, record_error, runs, sideVars>>

NextTime == ParseTime

SpecTime == InitTime /\ [][NextTime]_vars

\* ------------------------------------------------------------------------
\* parse_tiktok_video_url on its own
\* ------------------------------------------------------------------------
MaxSegments == 4
MaxUrlLen == 4

UrlAlphabet == {"/", "@", "?", "a", "1"}
UrlSegments == {<<"@", "a">>, <<"@", "b">>, <<"v">>, <<"1">>, <<>>}
UrlHosts == {<<"s">>, <<"h", ":", "/", "/", "s">>}
UrlQueries == {<<>>, <<"?", "x">>, <<"?", "/", "@", "c", "/", "2">>}

\* "/".join(segments) after a host
RECURSIVE JoinPath(_)
JoinPath(segments) ==
    IF segments = <<>> THEN <<>> ELSE <<"/">> \o Head(segments) \o JoinPath(Tail(segments))

\* host, up to MaxSegments path segments and a query string
UrlShapedTexts ==
    {h \o JoinPath(p) \o q :
        h \in UrlHosts, p \in UNION {[1..n -> UrlSegments] : n \in 0..MaxSegments}, q \in UrlQueries}

UrlTexts ==
    {NULL, <<>>} \cup UrlShapedTexts \cup UNION {[1..n -> UrlAlphabet] : n \in 1..MaxUrlLen}

InitUrl ==
    /\ InitSession
    /\ number_text = NULL
    /\ IdleTime
    /\ url_input \in UrlTexts
    /\ IdleEssence
    /\ video_heavy = {}
    /\ mode = "light"
    /\ max_videos_per_account = PageVideos
    /\ page = "user"
    /\ pc = "url"
    /\ faults = 0
    /\ existing_video_ids = {}
    /\ light_like_datas = <<>>
    /\ light_play_datas = <<>>
    /\ vidx = 0
    /\ visited = <<>>

\* one call of parse_tiktok_video_url(url_input)
ParseUrl ==
    /\ pc = "url"
    /\ url_result' = parse_tiktok_video_url(url_input)
    /\ url_raised' = BareExcept(RaisedInUrlTry(url_input))
    /\ pc' = "urled"
    /\ UNCHANGED <<crawler_accounts, favorite_accounts, video_light, video_heavy, clock, argVars,
                   crawler_account, driver, page, favorite_account_list, idx, targetVars, corrVars,
                   attempted, not_found, interrupted, failed, written, faults, raised, session,
                   last_crawled_writes, quit_calls, last_saved, numberVars, timeVars, url_input,
                   essenceVars, record_error, runs, sideVars>>

NextUrl == ParseUrl

SpecUrl == InitUrl /\ [][NextUrl]_vars

\* ------------------------------------------------------------------------
\* extract_thumbnail_essence on its own
\* ------------------------------------------------------------------------
MaxEssenceLen == 5

EssenceAlphabet == {"/", "?", ".", "~", "a"}
EssenceDirs == {<<>>, <<"h", "/">>, <<"h", ".", "c", "/", "d", "~", "e", "/">>}
EssenceNames == {<<"a">>, <<"a", "b">>}
EssenceTildes == {<<>>, <<"~", "t">>, <<"~", "t", ":", "1">>}
EssenceExtensions == {<<>>, <<".", "j">>, <<".", "j", ".", "k">>}
EssenceQueries == {<<>>, <<"?", "x">>, <<"?", "x", "/", "y", ".", "z", "~", "w">>}

\* directory, file name, "~" suffix, "." extension and query string
EssenceShapedTexts ==
    {d \o n \o t \o x \o q :
        d \in EssenceDirs, n \in EssenceNames, t \in EssenceTildes, x \in EssenceExtensions,
        q \in EssenceQueries}

EssenceTexts ==
    {NULL, <<>>} \cup EssenceShapedTexts \cup UNION {[1..n -> EssenceAlphabet] : n \in 1..MaxEssenceLen}

InitEssence ==
    /\ InitSession
    /\ number_text = NULL
    /\ IdleTime
    /\ IdleUrl
    /\ essence_input \in EssenceTexts
    /\ video_heavy = {}
    /\ mode = "light"
    /\ max_videos_per_account = PageVideos
    /\ page = "user"
    /\ pc = "essence"
    /\ faults = 0
    /\ existing_video_ids = {}
    /\ light_like_datas = <<>>
    /\ light_play_datas = <<>>
    /\ vidx = 0
    /\ visited = <<>>

\* one call of extract_thumbnail_essence(essence_input)
ExtractEssence ==
    /\ pc = "essence"
    /\ essence_result' = extract_thumbnail_essence(essence_input)
    /\ essence_raised' = ExceptException(RaisedInEssenceTry(essence_input))
    /\ pc' = "essenced"
    /\ UNCHANGED <<crawler_accounts, favorite_accounts, video_light, video_heavy, clock, argVars,
                   crawler_account, driver, page, favorite_account_list, idx, targetVars, corrVars,
                   attempted, not_found, interrupted, failed, written, faults, raised, session,
                   last_crawled_writes, quit_calls, last_saved, numberVars, timeVars, urlVars,
                   essence_input, record_error, runs, sideVars>>

NextEssence == ExtractEssence

SpecEssence == InitEssence /\ [][NextEssence]_vars

\* ------------------------------------------------------------------------
\* Two runs of main() on one database
\* ------------------------------------------------------------------------
NumRuns == 2

\* the rows of crawler_accounts when the runs begin
RunsCrawlerAccounts ==
    {[i \in 1..NumCrawlers |-> CrawlerRow(i, f[i].is_alive, f[i].last_crawled_at)] :
        f \in [1..NumCrawlers -> [is_alive : BOOLEAN, last_crawled_at : {NullTime} \cup (1..MaxStamp)]]}

InitRuns ==
    /\ crawler_accounts \in RunsCrawlerAccounts
    /\ favorite_accounts = [t \in 1..NumTargets |-> FavoriteRow(t, TRUE, NullTime)]
    /\ video_heavy = {}
    /\ mode = "light"
    /\ max_videos_per_account = PageVideos
    /\ max_accounts = 1
    /\ args_crawler_account_id = 0
    /\ pc = "runs"
    /\ clock = MaxStamp + 1
    /\ crawler_account = 0
    /\ driver = "none"
    /\ page = "none"
    /\ runs = [r \in 1..NumRuns |-> [at |-> "select", crawler_account |-> 0]]
    /\ InitIdle
    /\ IdleRepeat

\* the variables of the single run, which the two runs leave alone
singleRunVars ==
    <<favorite_accounts, video_light, video_heavy, argVars, pc, crawler_account, driver, page,
      favorite_account_list, idx, targetVars, corrVars, attempted, not_found, interrupted, failed,
      written, faults, raised, session, last_crawled_writes, quit_calls, last_saved, parseVars,
      record_error, sideVars>>

\* start(), lines 208-211: the SELECT of get_an_available_crawler_account and its test
RunSelect(r) ==
    /\ runs[r].at = "select"
    /\ \/ /\ get_an_available_crawler_account(crawler_accounts) = {}
          /\ runs' = [runs EXCEPT ![r].at = "stopped"]
       \/ \E a \in get_an_available_crawler_account(crawler_accounts) :
              runs' = [runs EXCEPT ![r] = [at |-> "login", crawler_account |-> a]]
    /\ UNCHANGED <<crawler_accounts, clock, singleRunVars>>

\* start(), lines 213-219: the browser is set up and the login made, or one of them fails
RunLogin(r) ==
    /\ runs[r].at = "login"
    /\ \/ runs' = [runs EXCEPT ![r].at = "update"]
       \/ runs' = [runs EXCEPT ![r].at = "stopped"]
    /\ UNCHANGED <<crawler_accounts, clock, singleRunVars>>

\* start(), lines 221-225: the UPDATE of last_crawled_at
RunUpdate(r) ==
    /\ runs[r].at = "update"
    /\ clock <= MaxStamp + NumRuns
    /\ crawler_accounts' = update_crawler_account_last_crawled(crawler_accounts, runs[r].crawler_account, clock)
    /\ clock' = clock + 1
    /\ runs' = [runs EXCEPT ![r].at = "crawling"]
    /\ UNCHANGED singleRunVars

\* the batches are over and stop() has run
RunStop(r) ==
    /\ runs[r].at = "crawling"
    /\ runs' = [runs EXCEPT ![r].at = "stopped"]
    /\ UNCHANGED <<crawler_accounts, clock, singleRunVars>>

NextRuns == \E r \in 1..NumRuns : RunSelect(r) \/ RunLogin(r) \/ RunUpdate(r) \/ RunStop(r)

SpecRuns == InitRuns /\ [][NextRuns]_vars

\* --- the video repository on its own: any sequence of saves
MaxStoreIds == 2
MaxStoreValue == 3

\* the records handed to the repository: MaxStoreIds videos, MaxStoreValue readings of the counts
StoreRecords ==
    {[LikeData(1, k) EXCEPT !.like_count_text = NatToStr(v)] : k \in 1..MaxStoreIds, v \in 1..MaxStoreValue}

\* the records handed to the repository, built at time MaxStamp
StoreLightRows == {VideoLightRawData(d, <<>>, MaxStamp) : d \in StoreRecords}
StoreHeavyRows == {VideoHeavyRawData(HeavyData(d), d.video_thumbnail_url, MaxStamp) : d \in StoreRecords}

InitStore ==
    /\ InitSession
    /\ number_text = NULL
    /\ IdleTime
    /\ IdleUrl
    /\ IdleEssence
    /\ video_heavy = {}
    /\ mode = "both"
    /\ max_videos_per_account = PageVideos
    /\ page = "user"
    /\ pc = "store"
    /\ faults = 0
    /\ existing_video_ids = {}
    /\ light_like_datas = <<>>
    /\ light_play_datas = <<>>
    /\ vidx = 0
    /\ visited = <<>>

storeVars ==
    <<crawler_accounts, favorite_accounts, clock, argVars, pc, crawler_account, driver, page,
      favorite_account_list, idx, targetVars, corrVars, attempted, not_found, interrupted,
      failed, written, faults, raised, session, last_crawled_writes, quit_calls, parseVars,
      record_error, runs, sideVars>>

\* VideoRepository.save_video_light_data(data)
SaveLight ==
    /\ pc = "store"
    /\ \E data \in StoreLightRows :
         /\ video_light' = save_video_light_data(video_light, data)
         /\ last_saved' = [last_saved EXCEPT !.light = PlayCountMapPut(last_saved.light, data.video_id, data)]
    /\ UNCHANGED <<video_heavy, storeVars>>

\* VideoRepository.save_video_heavy_data(data)
SaveHeavy ==
    /\ pc = "store"
    /\ \E data \in StoreHeavyRows :
         /\ video_heavy' = save_video_heavy_data(video_heavy, data)
         /\ last_saved' = [last_saved EXCEPT !.heavy = PlayCountMapPut(last_saved.heavy, data.video_id, data)]
    /\ UNCHANGED <<video_light, storeVars>>

NextStore ==
    \/ SaveLight
    \/ SaveHeavy

SpecStore == InitStore /\ [][NextStore]_vars

\* --- Database.execute_query on its own: any sequence of statements on one connection
\* "query.strip().upper().startswith('SELECT')"
IsSelect(q) == q.kind = "SELECT"

\* the statements the repositories hand to execute_query: the SELECT of
\* get_existing_heavy_data_video_ids and the upsert of save_video_light_data
Queries ==
    {[kind |-> "SELECT"]} \cup {[kind |-> "INSERT", data |-> d] : d \in StoreLightRows}

\* where a call of execute_query ends: it returns, cursor.execute raises Error,
\* commit raises Error, or the operator interrupts it before or after cursor.execute
QueryOutcomes == {"returns", "execute_error", "commit_error", "interrupt_before", "interrupt_after"}

\* cursor.execute(query, params): the statement takes effect inside the open transaction
execute(tx, q) == IF IsSelect(q) THEN tx ELSE Append(tx, q)

\* self.connection.commit(): the statements of the transaction reach the table, in order
RECURSIVE commit(_, _)
commit(rows, tx) ==
    IF tx = <<>> THEN rows ELSE commit(save_video_light_data(rows, Head(tx).data), Tail(tx))

\* variant: the failed statement stays in the transaction
rollback_nothing(tx) == tx

\* self.connection.rollback()
rollback(tx) == <<>>

InitQuery ==
    /\ InitStore

\* Database.execute_query(query, params)
ExecuteQuery ==
    /\ pc = "store"
    /\ \E q \in Queries, o \in QueryOutcomes :
         /\ IsSelect(q) => o # "commit_error"
         /\ query' = q
         /\ \/ /\ o = "returns"
               /\ IF IsSelect(q)
                  THEN UNCHANGED <<video_light, transaction, last_saved>>
                  ELSE /\ video_light' = commit(video_light, execute(transaction, q))
                       /\ transaction' = <<>>
                       /\ last_saved' = [last_saved EXCEPT
                                            !.light = PlayCountMapPut(@, q.data.video_id, q.data)]
               /\ query_raised' = "none"
               /\ pc' = pc
            \/ /\ o = "execute_error"
               /\ transaction' = IF IsSelect(q) THEN transaction ELSE rollback(transaction)
               /\ query_raised' = "Error"
               /\ pc' = pc
               /\ UNCHANGED <<video_light, last_saved>>
            \/ /\ o = "commit_error"
               /\ transaction' = rollback(execute(transaction, q))
               /\ query_raised' = "Error"
               /\ pc' = pc
               /\ UNCHANGED <<video_light, last_saved>>
            \/ /\ o \in {"interrupt_before", "interrupt_after"}
               /\ transaction' = IF o = "interrupt_after" THEN execute(transaction, q) ELSE transaction
               /\ query_raised' = "KeyboardInterrupt"
               /\ pc' = "disconnect"
               /\ UNCHANGED <<video_light, last_saved>>
    /\ UNCHANGED <<crawler_accounts, favorite_accounts, video_heavy, clock, argVars, crawler_account, driver, page,
                   favorite_account_list, idx, targetVars, corrVars, attempted, not_found, interrupted,
                   failed, written, faults, raised, session, last_crawled_writes, quit_calls, parseVars,
                   record_error, runs, unreachable>>

\* Database.disconnect() in the finally of main(): the connection is closed
\* and the server drops what was not committed
Disconnect ==
    /\ pc = "disconnect"
    /\ transaction' = <<>>
    /\ pc' = "done"
    /\ UNCHANGED <<video_light, last_saved, query, query_raised>>
    /\ UNCHANGED <<crawler_accounts, favorite_accounts, video_heavy, clock, argVars, crawler_account, driver, page,
                   favorite_account_list, idx, targetVars, corrVars, attempted, not_found, interrupted,
                   failed, written, faults, raised, session, last_crawled_writes, quit_calls, parseVars,
                   record_error, runs, unreachable>>

NextQuery ==
    \/ ExecuteQuery
    \/ Disconnect

SpecQuery == InitQuery /\ [][NextQuery]_vars

\* --- the per-video loop of heavy mode on a page of DefaultHeavyMaxVideos videos
MaxFirstSeen == 4

\* the sets of already stored videos: none, runs a..b and pairs {a, b} of the scan
\* order with a <= MaxFirstSeen
DedupExisting ==
    {a..b : a \in 1..MaxFirstSeen, b \in 1..DefaultHeavyMaxVideos}
    \cup {{a, b} : a \in 1..MaxFirstSeen, b \in 1..DefaultHeavyMaxVideos}

InitDedup ==
    /\ InitSession
    /\ number_text = NULL
    /\ IdleTime
    /\ IdleUrl
    /\ IdleEssence
    /\ \E E \in DedupExisting : video_heavy = HeavyRows(1, E)
    /\ mode = "heavy"
    /\ max_videos_per_account = DefaultHeavyMaxVideos
    /\ page = "user"
    /\ pc = "heavy_scan"
    /\ faults = MaxFaults
    /\ existing_video_ids = get_existing_heavy_data_video_ids(video_heavy, Username(1))
    /\ light_like_datas = LikeDatas(1, 1..DefaultHeavyMaxVideos)
    /\ light_play_datas = <<>>
    /\ vidx = 1
    /\ visited = <<>>

NextDedup ==
    \/ HeavyScan
    \/ HeavyExtract
    \/ HeavySave
    \/ HeavyBack

SpecDedup == InitDedup /\ [][NextDedup]_vars

\* ------------------------------------------------------------------------
\* Properties of the batch loops (Spec)
\* ------------------------------------------------------------------------
AttemptedSet == {attempted[i] : i \in 1..Len(attempted)}

\* C1: a target whose crawl fails never aborts the batch: the targets are
\* attempted in list order, every failed target is one of them, and a batch
\* that ends without an exception leaving it has attempted every target
C1_FailureNeverAbortsBatch ==
    /\ Len(attempted) <= Len(favorite_account_list)
    /\ \A i \in 1..Len(attempted) : attempted[i] = favorite_account_list[i]
    /\ failed \subseteq AttemptedSet
    /\ (pc \in {"stop", "done"} /\ raised = "none") => attempted = favorite_account_list

\* a batch of two targets has ended; the first target failed, the second was attempted
C1_Witness ==
    /\ pc = "done"
    /\ raised = "none"
    /\ Len(favorite_account_list) = 2
    /\ favorite_account_list[1] \in failed
    /\ attempted = favorite_account_list

\* C2: a target whose page showed that the account does not exist has its
\* liveness flag false, has no record written in that call, and the batch
\* went on to the next target or ended normally
C2_NotFoundClearsLiveness ==
    \A t \in not_found :
        /\ ~favorite_accounts[t].favorite_account_is_alive
        /\ t \notin written
        /\ raised = "none" => \/ pc \in {"stop", "done"} /\ attempted = favorite_account_list
                              \/ pc \notin {"stop", "done"} /\ idx <= Len(favorite_account_list)

\* C3: an operator interrupt raised during the run leaves the batch loop and
\* the run: once it was raised, KeyboardInterrupt is propagating and the
\* program is at or past the finally of main()
C3_InterruptPropagates ==
    interrupted => raised = "KeyboardInterrupt" /\ pc \in {"stop", "done"}

\* ------------------------------------------------------------------------
\* Properties of the record correlator (SpecCorrelate)
\* ------------------------------------------------------------------------
Fingerprint(d) == extract_thumbnail_essence(d.video_thumbnail_url)

\* the play-pass elements that share the fingerprint of like-pass element i
MatchesOf(i) ==
    {j \in 1..Len(light_play_datas) : Fingerprint(light_play_datas[j]) = Fingerprint(light_like_datas[i])}

\* the call of parse_and_save_video_light_datas has run to its end
CorrelatorDone == returned = "True" /\ pc = "light_update"

\* C4: the correlator emits and persists exactly Len(L) records, the i-th
\* for the i-th like-pass element, whatever the play pass contains
C4_OneRecordPerLikeElement ==
    CorrelatorDone =>
        /\ Len(emitted) = Len(light_like_datas)
        /\ \A i \in 1..Len(emitted) : emitted[i].video_id = light_like_datas[i].video_id
        /\ video_light = {emitted[i] : i \in 1..Len(emitted)}
        /\ Cardinality(video_light) = Len(light_like_datas)

\* two like-pass elements and an empty play pass gave two persisted records
C4_Witness ==
    /\ CorrelatorDone
    /\ Len(light_like_datas) = 2
    /\ light_play_datas = <<>>
    /\ Cardinality(video_light) = 2

\* C5: the identity fields of every emitted record are those of its
\* like-pass element, and a play count text that is not None is the text of
\* a play-pass element with the same fingerprint
C5_IdentityFromLikePass ==
    CorrelatorDone =>
        \A i \in 1..Len(emitted) :
            /\ i <= Len(light_like_datas)
            /\ emitted[i].video_id = light_like_datas[i].video_id
            /\ emitted[i].video_url = light_like_datas[i].video_url
            /\ emitted[i].account_username = light_like_datas[i].account_username
            /\ emitted[i].video_thumbnail_url = light_like_datas[i].video_thumbnail_url
            /\ emitted[i].video_alt_info_text = light_like_datas[i].video_alt_info_text
            /\ emitted[i].like_count_text = light_like_datas[i].like_count_text
            /\ emitted[i].play_count_text # NULL =>
                   \E j \in MatchesOf(i) : light_play_datas[j].play_count_text = emitted[i].play_count_text

\* a record carries the play count text of a partner whose thumbnail URL differs from its own
C5_Witness ==
    /\ CorrelatorDone
    /\ \E i \in 1..Len(emitted) :
         /\ emitted[i].play_count_text = <<"1", "K">>
         /\ emitted[i].play_count = 1000
         /\ \E j \in MatchesOf(i) :
              light_play_datas[j].video_thumbnail_url # emitted[i].video_thumbnail_url

\* the miss counter before like-pass element i is handled
MissesBefore(i) == IF i = 1 THEN 0 ELSE not_found_trace[i - 1]

\* C6: a like-pass element without a play-pass partner still gives a
\* persisted record, with play count text None and play count None, and
\* raises the miss counter by exactly 1
C6_MissStillPersisted ==
    CorrelatorDone =>
        \A i \in 1..Len(light_like_datas) :
            MatchesOf(i) = {} =>
                /\ i <= Len(emitted)
                /\ emitted[i].play_count_text = NULL
                /\ emitted[i].play_count = NullInt
                /\ emitted[i] \in video_light
                /\ Len(not_found_trace) = Len(light_like_datas)
                /\ not_found_trace[i] = MissesBefore(i) + 1

\* a non-empty play pass misses the second of two like-pass elements
C6_Witness ==
    /\ CorrelatorDone
    /\ Len(light_play_datas) > 0
    /\ Len(light_like_datas) = 2
    /\ MatchesOf(1) # {}
    /\ MatchesOf(2) = {}
    /\ emitted[2].play_count_text = NULL
    /\ emitted[2] \in video_light
    /\ play_count_not_found = not_found_trace[1] + 1

\* the emitted records whose play count text is not None
WithPlayCount == {i \in 1..Len(emitted) : emitted[i].play_count_text # NULL}

\* C7: as many records carry a play count text as like-pass elements have
\* their fingerprint in the play pass, the others carry None; 50 like-pass
\* elements and 62 play-pass elements sharing 45 fingerprints give 50
\* records, 45 with and 5 without
C7_PlayCountCardinality ==
    CorrelatorDone =>
        /\ Cardinality(WithPlayCount) = Cardinality({i \in 1..Len(light_like_datas) : MatchesOf(i) # {}})
        /\ \A i \in 1..Len(emitted) : i \notin WithPlayCount => emitted[i].play_count = NullInt
        /\ (light_like_datas = ScenarioLikeList /\ light_play_datas = ScenarioPlayList(5)) =>
               /\ Len(emitted) = 50
               /\ Cardinality(WithPlayCount) = 45
               /\ Cardinality((1..Len(emitted)) \ WithPlayCount) = 5

\* the scenario of 50 and 62 elements with 45 shared fingerprints has run
C7_Witness ==
    /\ CorrelatorDone
    /\ Len(light_like_datas) = 50
    /\ Len(light_play_datas) = 62
    /\ Cardinality({i \in 1..Len(light_like_datas) : MatchesOf(i) # {}}) = 45
    /\ Len(emitted) = 50
    /\ Cardinality(WithPlayCount) = 45

\* the last play-pass element that shares the fingerprint of like-pass element i
LastMatch(i) == LET M == MatchesOf(i) IN CHOOSE j \in M : \A k \in M : k <= j

\* C8: when several play-pass elements share a fingerprint, a like-pass
\* element with that fingerprint gets the text of the last of them
C8_LastWriteWins ==
    CorrelatorDone =>
        \A i \in 1..Len(light_like_datas) :
            MatchesOf(i) # {} =>
                /\ i <= Len(emitted)
                /\ emitted[i].play_count_text = light_play_datas[LastMatch(i)].play_count_text

\* two play-pass elements with one fingerprint and different texts: the second one's is attached
C8_Witness ==
    /\ CorrelatorDone
    /\ Len(light_like_datas) > 0
    /\ MatchesOf(1) = {1, 2}
    /\ light_play_datas[1].play_count_text = <<"7">>
    /\ light_play_datas[2].play_count_text = <<"1", "K">>
    /\ emitted[1].play_count_text = <<"1", "K">>

\* ------------------------------------------------------------------------
\* Properties of the heavy-mode scan (SpecDedup)
\* ------------------------------------------------------------------------
\* the ids of the like-pass elements a..b, in scan order
ScanIds(a, b) == [k \in 1..(b - a + 1) |-> light_like_datas[a + k - 1].video_id]

\* ten videos were scanned and exactly the first three have a heavy record
FirstThreeOfTenSeen ==
    /\ Len(light_like_datas) = 10
    /\ existing_video_ids = {light_like_datas[k].video_id : k \in 1..3}

\* C9 as stated: with the first 3 of 10 scanned videos already stored, a
\* scan that ran to its end has visited exactly videos 4 to 10
C9_VisitsVideosFourToTen ==
    (FirstThreeOfTenSeen /\ pc = "heavy_update" /\ faults = MaxFaults) => visited = ScanIds(4, 10)

\* C9 amended: with the first 3 of 10 scanned videos already stored, the
\* scan stops at video 1 and no video is visited for heavy extraction
C9_StopsBeforeAnyVisit ==
    FirstThreeOfTenSeen =>
        /\ visited = <<>>
        /\ pc \in {"heavy_scan", "heavy_update"}
        /\ vidx = 1

\* the scan of that target has ended without a visit
C9_Witness ==
    /\ FirstThreeOfTenSeen
    /\ pc = "heavy_update"
    /\ visited = <<>>
    /\ faults = MaxFaults

\* the positions of the scan order whose video already has a heavy record
SeenPositions == {i \in 1..Len(light_like_datas) : light_like_datas[i].video_id \in existing_video_ids}

\* C10: the videos are visited in like-pass order and only before the first
\* video that already has a heavy record: that video and the later ones are
\* not visited
C10_ScanStopsAtFirstSeen ==
    /\ Len(visited) <= Len(light_like_datas)
    /\ visited = ScanIds(1, Len(visited))
    /\ \A s \in SeenPositions : Len(visited) < s
    /\ \A s \in SeenPositions : \A k \in s..Len(light_like_datas) :
           \A v \in 1..Len(visited) : visited[v] # light_like_datas[k].video_id

\* videos 1 and 2 were visited and stored, video 3 was already stored, the scan ended there
C10_Witness ==
    /\ pc = "heavy_update"
    /\ 3 \in SeenPositions
    /\ Len(visited) = 2
    /\ vidx = 3
    /\ \E r \in video_heavy : r.video_id = visited[2] /\ r.crawled_at = clock

\* ------------------------------------------------------------------------
\* Properties of the session bracket (Spec, SpecSelect)
\* ------------------------------------------------------------------------
\* C11: in a run whose session was established the last-used timestamp of
\* the identity is written exactly once, at start, whatever becomes of the
\* batches; the row carries that timestamp until the run ends
C11_LastUsedWrittenOnce ==
    /\ last_crawled_writes <= 1
    /\ session = "established" =>
           /\ last_crawled_writes = 1
           /\ crawler_accounts[crawler_account].last_crawled_at = 2
           /\ \A j \in DOMAIN crawler_accounts :
                  j # crawler_account => crawler_accounts[j].last_crawled_at < 2

\* a run that an operator interrupt cut short in a batch has ended with one write
C11_Witness ==
    /\ pc = "done"
    /\ session = "established"
    /\ raised = "KeyboardInterrupt"
    /\ attempted # <<>>
    /\ last_crawled_writes = 1

\* C12: a run that created a browser session does not end before the session
\* is released: at the end driver.quit() was called and no browser is open
C12_SessionReleased ==
    /\ pc = "done" => driver # "open"
    /\ (pc = "done" /\ driver # "none") => driver = "quit" /\ quit_calls >= 1
    /\ driver = "quit" => quit_calls >= 1

\* a run interrupted during the login has ended with the browser released
C12_Witness ==
    /\ pc = "done"
    /\ raised = "KeyboardInterrupt"
    /\ session = "failed"
    /\ page = "login"
    /\ driver = "quit"

\* row a is live and least recently used among the live rows: a never used
\* row comes before every used one, otherwise the oldest timestamp comes first
IsLiveLeastRecentlyUsed(rows, a) ==
    LET live == {j \in DOMAIN rows : rows[j].is_alive}
        never == {j \in live : rows[j].last_crawled_at = NullTime}
    IN  /\ a \in live
        /\ IF never # {} THEN a \in never
           ELSE \A j \in live : rows[a].last_crawled_at <= rows[j].last_crawled_at

\* C13 as stated: the identity of every established session is live and the
\* least recently used among the live identities
C13_IdentityIsLiveLRU ==
    [][(pc = "start" /\ session' = "established")
           => IsLiveLeastRecentlyUsed(crawler_accounts, crawler_account')]_vars

\* C13 amended: without an identity override, the identity of every
\* established session is live and the least recently used among the live ones
C13_IdentityIsLiveLRUWithoutOverride ==
    [][(pc = "start" /\ session' = "established" /\ args_crawler_account_id = 0)
           => IsLiveLeastRecentlyUsed(crawler_accounts, crawler_account')]_vars

\* without an override account 2 was chosen although account 1 is live: account 1 was used later
C13_Witness ==
    /\ session = "established"
    /\ args_crawler_account_id = 0
    /\ crawler_account = 2
    /\ crawler_accounts[1].is_alive
    /\ crawler_accounts[1].last_crawled_at = 2
    /\ crawler_accounts[2].last_crawled_at = clock - 1

\* C14: when start() fails, the run ends with the exception surfaced, no
\* target was navigated to and no video record or target timestamp was written
C14_SetupFailureTouchesNothing ==
    session = "failed" =>
        /\ raised # "none"
        /\ pc \in {"stop", "done"}
        /\ attempted = <<>>
        /\ written = {}
        /\ video_light = {}
        /\ page \notin {"user", "video", "creator_tab"}
        /\ \A t \in DOMAIN favorite_accounts : favorite_accounts[t].last_crawled_at = NullTime

\* the requested identity does not exist: the run has ended with an exception and no session
C14_Witness ==
    /\ pc = "done"
    /\ session = "failed"
    /\ raised = "Exception"
    /\ crawler_account = 0
    /\ args_crawler_account_id # 0
    /\ driver = "none"

\* ------------------------------------------------------------------------
\* Properties of the video repository (SpecStore)
\* ------------------------------------------------------------------------
\* the rows of a table are exactly the last saved record of every saved video id
HoldsLastSaves(rows, last) ==
    /\ rows = {last[k] : k \in DOMAIN last}
    /\ \A r1, r2 \in rows : r1.video_id = r2.video_id => r1 = r2
    /\ Cardinality(rows) = Cardinality(DOMAIN last)

\* C15: after any sequence of saves each table holds at most one record per
\* video id, with the values of the most recent save of that id, and saving
\* a stored record again leaves the table as it is
C15_UpsertKeepsLastSave ==
    pc = "store" =>
        /\ HoldsLastSaves(video_light, last_saved.light)
        /\ HoldsLastSaves(video_heavy, last_saved.heavy)
        /\ \A r \in video_light : save_video_light_data(video_light, r) = video_light
        /\ \A r \in video_heavy : save_video_heavy_data(video_heavy, r) = video_heavy

\* one video has a heavy record with like count 1 while every video has a light record
C15_Witness ==
    /\ pc = "store"
    /\ Cardinality(video_heavy) = 1
    /\ Cardinality(video_light) = MaxStoreIds
    /\ \E r \in video_heavy : r.like_count = 1 /\ r.like_count_text = <<"1">>


\* ------------------------------------------------------------------------
\* Claims about failures inside one target
\* ------------------------------------------------------------------------
\* a step in which navigate_to_user_page or navigate_to_video_page does not find its marker
PageMarkerMissing ==
    /\ pc \in {"light_nav_user", "heavy_nav_user", "light_nav_video", "heavy_scan"}
    /\ page' \in {"unknown", "not_found"}
    /\ raised' = raised

\* the iteration of the current target is over: the batch is at its next target or past its last
TargetLeft == pc \in {"light_nav_user", "heavy_existing", "heavy_fetch", "stop", "done"}

\* C16: a step in which a page-level marker (the post list of the user page,
\* the detail anchor of a video page) does not appear ends the crawl of the
\* current target, the batch going on with the next target or ending, and
\* no video is visited while the page is the one that failed to load
C16_MarkerFailureEndsTarget ==
    [][/\ PageMarkerMissing => TargetLeft' /\ raised' = "none"
       /\ visited' # visited /\ visited' # <<>> => page # "unknown"]_vars

\* C17: when a like pass, a play pass, a heavy extraction or a heavy
\* parse-and-save of the current target met an error in single records, only
\* those records were skipped: no record without an error was lost and no
\* exception left the function
C17_RecordErrorRecoveredLocally ==
    record_error.errors > 0 => record_error.lost = 0 /\ ~record_error.surfaced

\* ------------------------------------------------------------------------
\* Claims about the order of the pages of one target
\* ------------------------------------------------------------------------
\* the page and the collected data that each position of a target's crawl requires
StateOrder ==
    /\ pc \in {"light_like", "heavy_like"} => page = "user" /\ light_like_datas = <<>>
    /\ pc = "light_nav_video" => page = "user" /\ light_like_datas # <<>>
    /\ pc = "light_nav_tab" => page = "video" /\ light_like_datas # <<>>
    /\ pc = "heavy_extract" => page = "video" /\ light_like_datas # <<>>
    /\ pc = "heavy_save" => page = "video"
    /\ pc \in {"light_play", "light_save"} => page = "creator_tab" /\ light_like_datas # <<>>
    /\ light_play_datas # <<>> => page = "creator_tab"

\* the creator tab is opened from a video detail page only
TabOpenedFromVideoPage == page' = "creator_tab" /\ page # "creator_tab" => page = "video" /\ pc = "light_nav_tab"

\* the step that ends a target's crawl with its last-crawled timestamp written
TargetCompleted ==
    /\ pc \in {"light_update", "heavy_update"}
    /\ favorite_accounts' # favorite_accounts

IsDecimalText(s) ==
    /\ s # <<>>
    /\ \A i \in 1..Len(s) : s[i] \in Digits \cup {"."}
    /\ Cardinality({i \in 1..Len(s) : s[i] = "."}) <= 1
    /\ \E i \in 1..Len(s) : s[i] \in Digits

\* the multiplier that the last character of s stands for, 0 when it is no unit
UnitMultiplier(s) ==
    IF s = <<>> THEN 0
    ELSE IF s[Len(s)] \in {"K", "k"} THEN 1000
    ELSE IF s[Len(s)] \in {"M", "m"} THEN 1000000
    ELSE IF s[Len(s)] \in {"G", "g", "B", "b"} THEN 1000000000
    ELSE 0

Prefix(s) == SubSeq(s, 1, Len(s) - 1)

IsUnitForm(s) ==
    /\ Len(s) >= 2
    /\ s[Len(s)] \in {"K", "M", "G", "B"}
    /\ IsDigitStr(SplitFirst(Prefix(s), "."))
    /\ Contains(Prefix(s), ".") => IsDigitStr(SubSeq(Prefix(s), IndexOf(Prefix(s), ".") + 1, Len(s) - 1))

\* the integers nearest to the exact product of the decimal s and mult
Rounded(s, mult) ==
    LET e == ExactProduct(s, mult)
    IN  IF 2 * e.rest < e.over THEN {e.whole}
        ELSE IF 2 * e.rest > e.over THEN {e.whole + 1}
        ELSE {e.whole, e.whole + 1}

\* C20: on a text of the form <number>[.<number>]<K|M|G|B>, with a fraction
\* of any length, parse_tiktok_number returns the product of the number and
\* the unit's multiplier rounded to the nearest integer; "1,234" gives 1234
C20_RoundedProduct ==
    pc = "parsed" =>
        /\ IsUnitForm(number_text) =>
               number_result \in Rounded(Prefix(number_text), UnitMultiplier(number_text))
        /\ number_text = <<"1", ",", "2", "3", "4">> => number_result = 1234

\* ------------------------------------------------------------------------
\* C21-C23: parse_tiktok_time
\* ------------------------------------------------------------------------
\* the unit that a relative suffix names
SuffixUnit(suffix) ==
    IF suffix = <<Byou, Mae>> THEN "seconds"
    ELSE IF suffix = <<Fun, Mae>> THEN "minutes"
    ELSE IF suffix = <<Ji, Kan, Mae>> THEN "hours"
    ELSE "days"

\* the suffix of a text made of a magnitude and one of the four relative suffixes
RelativeSuffixOf(t) ==
    CHOOSE s \in TimeSuffixes : EndsWith(t, s) /\ IsDigitStr(SubSeq(t, 1, Len(t) - Len(s)))

IsRelativeText(t) ==
    /\ t # NULL
    /\ \E s \in TimeSuffixes : EndsWith(t, s) /\ IsDigitStr(SubSeq(t, 1, Len(t) - Len(s)))

RelativeMagnitude(t) == StrToNat(SubSeq(t, 1, Len(t) - Len(RelativeSuffixOf(t))))

\* C21: for a text made of a magnitude n and one of the four relative suffixes
\* (seconds, minutes, hours, days ago) parse_tiktok_time returns the reference
\* time minus n of that unit; "3 days ago" at 2024-06-15T10:00 is 2024-06-12T10:00.
C21_RelativeTimes ==
    (pc = "timed" /\ IsRelativeText(time_input)) =>
        /\ time_result =
               Before(time_base, RelativeMagnitude(time_input), SuffixUnit(RelativeSuffixOf(time_input)))
        /\ (time_input = <<"3", Nichi, Mae>> /\ time_base = Datetime(2024, 6, 15, 10, 0, 0)
                => time_result = Datetime(2024, 6, 12, 10, 0, 0))

\* a text of digits, "-" and digits
IsMonthDayText(t) ==
    /\ t # NULL
    /\ Len(Split(t, "-")) = 2
    /\ IsDigitStr(Split(t, "-")[1])
    /\ IsDigitStr(Split(t, "-")[2])

TextMonth(t) == StrToNat(Split(t, "-")[1])
TextDay(t) == StrToNat(Split(t, "-")[2])

\* the year the claim gives a month-day text
ClaimedYear(t, base) == IF TextMonth(t) <= base.month THEN base.year ELSE base.year - 1

\* C22: a month-day text that names a calendar date yields that month and day at
\* the hour and minute of the reference time, in the reference year when the
\* month is at most the reference month (the same year for the reference month,
\* whatever the day) and in the year before when it is greater; at
\* 2024-06-15T10:00 "3-25" is 2024-03-25T10:00 and "8-01" is 2023-08-01T10:00.
C22_MonthDayYear ==
    (/\ pc = "timed"
     /\ IsMonthDayText(time_input)
     /\ DateOk(ClaimedYear(time_input, time_base), TextMonth(time_input), TextDay(time_input))) =>
        /\ time_result.year = ClaimedYear(time_input, time_base)
        /\ time_result.month = TextMonth(time_input)
        /\ time_result.day = TextDay(time_input)
        /\ time_result.hour = time_base.hour
        /\ time_result.minute = time_base.minute
        /\ time_base = Datetime(2024, 6, 15, 10, 0, 0) =>
            /\ time_input = <<"3", "-", "2", "5">> => time_result = Datetime(2024, 3, 25, 10, 0, 0)
            /\ time_input = <<"8", "-", "0", "1">> => time_result = Datetime(2023, 8, 1, 10, 0, 0)
            /\ time_input = <<"6", "-", "3", "0">> => time_result = Datetime(2024, 6, 30, 10, 0, 0)

\* a month after the reference month was parsed into the year before
C22_Witness ==
    /\ pc = "timed"
    /\ time_input = <<"8", "-", "0", "1">>
    /\ time_base = Datetime(2024, 6, 15, 10, 0, 0)
    /\ time_result = Datetime(2023, 8, 1, 10, 0, 0)

\* a text of digits, "-", digits, "-" and digits
IsDateText(t) ==
    /\ t # NULL
    /\ Len(Split(t, "-")) = 3
    /\ \A i \in 1..3 : IsDigitStr(Split(t, "-")[i])

\* the numbers of a text of n numbers that "-" separates, a number being what int() reads
HasNumbers(t, n) ==
    /\ t # NULL
    /\ Len(Split(t, "-")) = n
    /\ \A i \in 1..n : IntOk(Split(t, "-")[i])
NumberAt(t, i) == IntOf(Split(t, "-")[i])

\* a text of one of the three forms whose numbers are a magnitude or a calendar date
IsValidTimeText(t, base) ==
    \/ IsRelativeText(t)
    \/ /\ HasNumbers(t, 2)
       /\ DateOk(IF NumberAt(t, 1) <= base.month THEN base.year ELSE base.year - 1,
                 NumberAt(t, 1), NumberAt(t, 2))
    \/ HasNumbers(t, 3) /\ DateOk(NumberAt(t, 1), NumberAt(t, 2), NumberAt(t, 3))

\* C23: parse_tiktok_time never raises; it returns None for every text that is
\* not of the relative, month-day or year-month-day form and for every text of
\* those forms whose numbers are not a magnitude or a calendar date; a valid
\* year-month-day text yields that date.
C23_NoneAndNeverRaises ==
    pc = "timed" =>
        /\ time_raised = "none"
        /\ ~IsValidTimeText(time_input, time_base) => time_result = NoneDatetime
        /\ (IsDateText(time_input) /\ IsValidTimeText(time_input, time_base)) =>
            /\ time_result.year = StrToNat(Split(time_input, "-")[1])
            /\ time_result.month = StrToNat(Split(time_input, "-")[2])
            /\ time_result.day = StrToNat(Split(time_input, "-")[3])

\* a month-day text that names no calendar date was turned into None
C23_Witness ==
    /\ pc = "timed"
    /\ time_input = <<"2", "-", "3", "0">>
    /\ time_result = NoneDatetime
    /\ time_raised = "none"

\* ------------------------------------------------------------------------
\* C24: parse_tiktok_video_url
\* ------------------------------------------------------------------------
\* the path segments of a URL without its query string
UrlPathSegments(u) == Split(IF Contains(u, "?") THEN SubSeq(u, 1, IndexOf(u, "?") - 1) ELSE u, "/")

IsMarked(segment) == Len(segment) > 0 /\ segment[1] = "@"

\* the segment three positions from the end carries the marker
OwnerThirdFromEnd(u) ==
    /\ u # NULL
    /\ Len(UrlPathSegments(u)) >= 3
    /\ IsMarked(UrlPathSegments(u)[Len(UrlPathSegments(u)) - 2])

\* C24 as stated: the video id is the last path segment and the owner handle is
\* the segment three positions from the end without its marker, for every URL
\* that has a marked segment there.
C24_OwnerThirdFromEndOfEveryUrl ==
    (pc = "urled" /\ OwnerThirdFromEnd(url_input)) =>
        LET segs == UrlPathSegments(url_input)
        IN  /\ url_result.video_id = segs[Len(segs)]
            /\ url_result.account_username = Tail(segs[Len(segs) - 2])

\* C24: for every non-empty URL parse_tiktok_video_url strips the query string
\* and returns the last path segment as the video id and the first segment that
\* carries the marker, without the marker, as the owner handle; that is the
\* segment three positions from the end when no earlier segment is marked, as in
\* "s/@a/v/1?x", which yields ("1", "a").
C24_OwnerFirstMarkedSegment ==
    (pc = "urled" /\ url_input # NULL /\ url_input # <<>>) =>
        LET segs == UrlPathSegments(url_input)
            marked == {i \in 1..Len(segs) : IsMarked(segs[i])}
        IN  /\ url_raised = "none"
            /\ url_result.video_id = segs[Len(segs)]
            /\ marked = {} => url_result.account_username = NULL
            /\ \A i \in marked :
                   (\A j \in marked : i <= j) => url_result.account_username = Tail(segs[i])
            /\ (OwnerThirdFromEnd(url_input) /\ \A j \in marked : j >= Len(segs) - 2)
                   => url_result.account_username = Tail(segs[Len(segs) - 2])
            /\ url_input = <<"s", "/", "@", "a", "/", "v", "/", "1", "?", "x">>
                   => url_result = [video_id |-> <<"1">>, account_username |-> <<"a">>]

\* the URL of the example was parsed
C24_Witness ==
    /\ pc = "urled"
    /\ url_input = <<"s", "/", "@", "a", "/", "v", "/", "1", "?", "x">>
    /\ url_result = [video_id |-> <<"1">>, account_username |-> <<"a">>]

\* ------------------------------------------------------------------------
\* C25: a video URL of the wrong shape
\* ------------------------------------------------------------------------
\* no video-id segment (the path ends with "/" or the URL is empty) or no owner segment
IsMalformedUrl(u) ==
    \/ u = NULL
    \/ u = <<>>
    \/ UrlPathSegments(u)[Len(UrlPathSegments(u))] = <<>>
    \/ \A i \in 1..Len(UrlPathSegments(u)) : ~IsMarked(UrlPathSegments(u)[i])

\* C25: a video URL whose shape does not match, one without a video-id segment
\* or without an owner segment, makes parse_tiktok_video_url signal a typed
\* error (which aborts the one record and nothing else): the call does not
\* return a pair for such a URL.
C25_MalformedUrlSignalsTypedError ==
    (pc = "urled" /\ IsMalformedUrl(url_input)) => url_raised # "none"

\* ------------------------------------------------------------------------
\* C26: extract_thumbnail_essence
\* ------------------------------------------------------------------------
\* a URL whose file name carries no "~" suffix, no "." extension and no query string
IsBareAssetUrl(u) ==
    /\ u # NULL
    /\ ~Contains(u, "?")
    /\ ~Contains(SplitLast(u, "/"), ".")
    /\ ~Contains(SplitLast(u, "/"), "~")

\* C26: extract_thumbnail_essence is idempotent, its result being its own
\* fingerprint; a URL that carries a "~" suffix, a "." extension and a query
\* string, each of them or all, has the fingerprint of the same URL without
\* them; the call never raises, and an input it cannot parse (None) comes back
\* unchanged.
C26_IdempotentAndSuffixInsensitive ==
    pc = "essenced" =>
        /\ essence_raised = "none"
        /\ extract_thumbnail_essence(essence_result) = essence_result
        /\ essence_input = NULL => essence_result = NULL
        /\ IsBareAssetUrl(essence_input) =>
               \A t \in EssenceTildes, x \in EssenceExtensions, q \in EssenceQueries :
                   extract_thumbnail_essence(essence_input \o t \o x \o q) = essence_result

\* a URL with a "~" suffix, an extension and a query string was reduced to its file name
C26_Witness ==
    /\ pc = "essenced"
    /\ essence_input = <<"h", "/", "a", "~", "t", ".", "j", "?", "x">>
    /\ essence_result = <<"a">>

\* ------------------------------------------------------------------------
\* C27: what the crawl leaves alone
\* ------------------------------------------------------------------------
VideoIds(rows) == {r.video_id : r \in rows}

\* C27: no step of the crawl (start, light batch, heavy batch, stop) deletes a
\* video record or creates or deletes a crawler account or a favorite account,
\* and of their rows it changes nothing but is_alive and last_crawled_at.
C27_CrawlFrame ==
    [][/\ VideoIds(video_light) \subseteq VideoIds(video_light')
       /\ VideoIds(video_heavy) \subseteq VideoIds(video_heavy')
       /\ DOMAIN crawler_accounts' = DOMAIN crawler_accounts
       /\ DOMAIN favorite_accounts' = DOMAIN favorite_accounts
       /\ \A i \in DOMAIN crawler_accounts :
              /\ crawler_accounts'[i].username = crawler_accounts[i].username
              /\ crawler_accounts'[i].password = crawler_accounts[i].password
              /\ crawler_accounts'[i].proxy = crawler_accounts[i].proxy
       /\ \A t \in DOMAIN favorite_accounts :
              /\ favorite_accounts'[t].favorite_account_username
                     = favorite_accounts[t].favorite_account_username
              /\ favorite_accounts'[t].crawler_account_id = favorite_accounts[t].crawler_account_id
              /\ favorite_accounts'[t].crawl_priority = favorite_accounts[t].crawl_priority]_vars

\* a run has stored a video record, stamped a favorite account and stamped its crawler account
C27_Witness ==
    /\ pc = "done"
    /\ video_light \cup video_heavy # {}
    /\ \E t \in DOMAIN favorite_accounts : favorite_accounts[t].last_crawled_at > 1
    /\ \E i \in DOMAIN crawler_accounts : crawler_accounts[i].last_crawled_at > 1

\* ------------------------------------------------------------------------
\* C28: one crawler account, one session
\* ------------------------------------------------------------------------
\* the run has taken a crawler account and has not stopped
HoldsAccount(r) == runs[r].at \in {"login", "update", "crawling"}

\* C28: a crawler account is owned by at most one session at a time: two runs
\* started without --crawler-account-id, interleaved in any order, never hold
\* the same crawler account together.
C28_ExclusiveIdentity ==
    \A r1, r2 \in DOMAIN runs :
        (r1 # r2 /\ HoldsAccount(r1) /\ HoldsAccount(r2))
            => runs[r1].crawler_account # runs[r2].crawler_account

\* ------------------------------------------------------------------------
\* C29: the mode fixes the batches
\* ------------------------------------------------------------------------
LightSteps ==
    {"light_fetch", "light_nav_user", "light_like", "light_nav_video", "light_nav_tab", "light_play",
     "light_save", "light_update"}
HeavySteps ==
    {"heavy_fetch", "heavy_existing", "heavy_nav_user", "heavy_like", "heavy_scan", "heavy_extract",
     "heavy_save", "heavy_back", "heavy_update"}

\* C29: mode light runs the light batch only and writes no heavy record, mode
\* heavy runs the heavy batch only and writes no light record; mode both runs
\* the light batch first and, when that batch returns, the heavy batch, with
\* the crawler account and the browser of the one start().
C29_ModeFixesBatches ==
    [][/\ mode' = mode
       /\ mode = "light" => pc' \notin HeavySteps /\ video_heavy' = video_heavy
       /\ mode = "heavy" => pc' \notin LightSteps /\ video_light' = video_light
       /\ mode = "both" =>
              /\ (pc = "start" /\ pc' \notin {"start", "stop"}) => pc' = "light_fetch"
              /\ pc \in HeavySteps => pc' \notin LightSteps
              /\ (pc \in LightSteps /\ pc' \notin LightSteps /\ raised' = "none") => pc' = "heavy_fetch"
              /\ (pc \in LightSteps /\ pc' \in HeavySteps) =>
                     /\ crawler_account' = crawler_account
                     /\ driver' = driver
                     /\ driver = "open"
                     /\ session' = session
                     /\ last_crawled_writes' = last_crawled_writes
                     /\ quit_calls' = quit_calls
       /\ pc \in LightSteps \cup HeavySteps => crawler_account' = crawler_account]_vars

\* a run in mode both is over and has written a light and a heavy record
C29_Witness ==
    /\ mode = "both"
    /\ pc = "done"
    /\ video_light # {}
    /\ video_heavy # {}
    /\ last_crawled_writes = 1

\* ------------------------------------------------------------------------
\* C30: the bounds of a batch
\* ------------------------------------------------------------------------
\* the rows of a table that belong to favorite account t
RowsOfTarget(rows, t) == {r \in rows : r.account_username = Username(t)}

\* C30: a batch attempts at most max_accounts favorite accounts, each of them
\* alive and assigned to the crawler account of the session, none of them
\* twice; in mode light at most max_videos_per_account light records are stored
\* for a favorite account, in mode heavy at most max_videos_per_account video
\* pages of a favorite account are visited.
C30_BatchBounds ==
    /\ Len(attempted) <= max_accounts
    /\ \A i \in DOMAIN attempted :
           /\ favorite_accounts[attempted[i]].crawler_account_id = crawler_account
           /\ favorite_accounts[attempted[i]].favorite_account_is_alive
           /\ \A j \in DOMAIN attempted : i # j => attempted[i] # attempted[j]
    /\ mode = "light" =>
           \A t \in DOMAIN favorite_accounts :
               Cardinality(RowsOfTarget(video_light, t)) <= max_videos_per_account
    /\ mode = "heavy" => Len(visited) <= max_videos_per_account

\* a light run stopped at one of the two favorite accounts of its crawler
\* account and at one of the two videos of that account's page
C30_Witness ==
    /\ mode = "light"
    /\ pc = "done"
    /\ max_accounts = 1
    /\ max_videos_per_account = 1
    /\ Cardinality({t \in DOMAIN favorite_accounts :
                       /\ favorite_accounts[t].crawler_account_id = crawler_account
                       /\ favorite_accounts[t].favorite_account_is_alive}) > 1
    /\ Len(attempted) = 1
    /\ Cardinality(RowsOfTarget(video_light, attempted[1])) = 1


\* ------------------------------------------------------------------------
\* Properties of Database.execute_query (SpecQuery)
\* ------------------------------------------------------------------------
\* C31: every persistence write is applied completely or not at all: a call of
\* execute_query with a statement other than a SELECT that returns has committed
\* exactly that upsert, a call that raises leaves the stored records as they were
\* and one that raises a database error leaves nothing uncommitted behind, a
\* SELECT neither commits nor rolls back, and the table always holds exactly the
\* last successfully saved record of every video id, whole
C31_WriteAppliedWhollyOrNotAtAll ==
    [][pc = "store" =>
          /\ (query_raised' # "none" => video_light' = video_light)
          /\ (~IsSelect(query') /\ query_raised' = "none" =>
                 /\ video_light' = save_video_light_data(video_light, query'.data)
                 /\ transaction' = <<>>)
          /\ (~IsSelect(query') /\ query_raised' = "Error" => transaction' = <<>>)
          /\ (IsSelect(query') => video_light' = video_light /\ transaction' = transaction)
          /\ HoldsLastSaves(video_light, last_saved.light)'
          /\ video_light' \subseteq StoreLightRows]_vars

\* an upsert of new values for a stored video id has failed with a database
\* error: the stored row of that id is not the record of the failed call
C31_Witness ==
    /\ pc = "store"
    /\ query.kind = "INSERT"
    /\ query_raised = "Error"
    /\ query.data \notin video_light
    /\ \E r \in video_light : r.video_id = query.data.video_id
    /\ transaction = <<>>


\* ------------------------------------------------------------------------
\* C32: a target whose user page or like pass fails
\* ------------------------------------------------------------------------
\* the steps navigate_to_user_page and get_video_light_like_datas_from_user_page of both batches
UserPageSteps == {"light_nav_user", "light_like", "heavy_nav_user", "heavy_like"}

\* C32: when navigate_to_user_page fails or the like pass yields no record, the
\* visit of that target is over: the batch goes to the next target or ends, no
\* light or heavy record of the target was written, and the target's row, with
\* its last-crawled timestamp and liveness flag, is as it was before the run
C32_FailedUserPageWritesNothing ==
    [][(pc \in UserPageSteps /\ Target \in failed') =>
          /\ Target \notin written'
          /\ RowsOfTarget(video_light', Target) = {}
          /\ RowsOfTarget(video_heavy', Target) = {}
          /\ favorite_accounts' = favorite_accounts
          /\ favorite_accounts'[Target].last_crawled_at = NullTime
          /\ favorite_accounts'[Target].favorite_account_is_alive
          /\ \/ pc' = "stop"
             \/ /\ idx' = idx + 1
                /\ pc' = (IF mode = "light" THEN "light_nav_user" ELSE "heavy_existing")]_vars

\* a batch of two targets has ended: the page of the first showed no account
\* and nothing of it is stored, the second was crawled and its timestamp written
C32_Witness ==
    /\ pc = "done"
    /\ Len(attempted) = 2
    /\ attempted[1] \in not_found \cap failed
    /\ favorite_accounts[attempted[1]].last_crawled_at = NullTime
    /\ favorite_accounts[attempted[2]].last_crawled_at # NullTime
    /\ attempted[2] \in written


\* ------------------------------------------------------------------------
\* C33: the last-crawled timestamp and the save of the light records
\* ------------------------------------------------------------------------
\* C33: in light mode the last-crawled timestamp of a target is written only
\* when parse_and_save_video_light_datas has returned True and every record
\* of the like pass of that visit is stored
C33_TimestampOnlyAfterFullSave ==
    [][(pc = "light_update" /\ favorite_accounts' # favorite_accounts) =>
          /\ returned = "True"
          /\ Len(emitted) = Len(light_like_datas)
          /\ \A i \in 1..Len(light_like_datas) :
                 \E r \in video_light : r.video_id = light_like_datas[i].video_id]_vars


\* ------------------------------------------------------------------------
\* C34: the two batches of mode both
\* ------------------------------------------------------------------------
\* the favorite accounts of a fetched list
ListedTargets(q) == {q[i] : i \in DOMAIN q}

\* C34: in mode both the list the heavy batch fetches holds the same favorite
\* accounts as the list the light batch of the run has worked on
C34_HeavyBatchOfLightTargets ==
    [][(mode = "both" /\ pc = "heavy_fetch" /\ raised' = "none") =>
          ListedTargets(favorite_account_list') = ListedTargets(favorite_account_list)]_vars


\* ------------------------------------------------------------------------
\* C35: repeated runs (SpecRepeat)
\* ------------------------------------------------------------------------
\* favorite account t is alive, belongs to the crawler account and its page loads
Loadable(t) ==
    /\ favorite_accounts[t].favorite_account_is_alive
    /\ favorite_accounts[t].crawler_account_id = crawler_account
    /\ t \notin unreachable

\* t was crawled by one of the runs
CrawledByARun(t) == favorite_accounts[t].last_crawled_at >= FirstRunAt

\* C35: under repeated runs every live favorite account of the crawler account
\* whose page loads is crawled by some run, whatever the other favorite
\* accounts do (the runs stop after MaxCrawls crawls)
C35_LoadableTargetEventuallyCrawled ==
    \A t \in 1..NumTargets :
        <>(Loadable(t) => (CrawledByARun(t) \/ clock >= FirstRunAt + MaxCrawls))


\* ------------------------------------------------------------------------
\* C36: the page at the head of the per-video loop of heavy mode
\* ------------------------------------------------------------------------
\* C36: in heavy mode every iteration of the per-video loop begins with the
\* browser on the target's user page, also the iteration after one in which
\* navigate_to_video_page or the heavy extraction failed
C36_IterationStartsAtUserPage ==
    (pc = "heavy_scan" /\ vidx <= Min(Len(light_like_datas), max_videos_per_account)) => page = "user"


\* ------------------------------------------------------------------------
\* C37: the release of the browser session
\* ------------------------------------------------------------------------
\* C37: within one run driver.quit() is called at most once, also when start()
\* fails after the driver was created and the finally of main() calls stop()
C37_DriverQuitAtMostOnce == quit_calls <= 1


\* ------------------------------------------------------------------------
\* C38: the miss count of the correlator
\* ------------------------------------------------------------------------
\* the like-pass elements whose fingerprint no play-pass element has
Unmatched == {i \in 1..Len(light_like_datas) : MatchesOf(i) = {}}

\* the stored light records whose play count text is None
StoredWithoutPlayCount == {r \in video_light : r.play_count_text = NULL}

\* C38: after a call of parse_and_save_video_light_datas that returned True the
\* miss count it reports is the number of like-pass elements without a
\* fingerprint match in the play pass, and that is the number of stored light
\* records whose play count text is None, also when a matched play-pass
\* element carries an empty play count text
C38_MissCountIsUnmatchedCount ==
    (CorrelatorDone /\ returned = "True") =>
        /\ play_count_not_found = Cardinality(Unmatched)
        /\ Cardinality(Unmatched) = Cardinality(StoredWithoutPlayCount)

====
